---- MODULE Spec2Model ----
(***************************************************************************)
(* Question lifecycle of the Dutch-learning app: the Firestore repository  *)
(* (src/src/services/firestore.ts), the schema migration it runs on every  *)
(* read, and the App component's handlers (src/src/App.tsx) with their     *)
(* in-flight markers.  Every `await` of the source is one step of a task,  *)
(* so reads and writes of different handlers and of different browser tabs *)
(* interleave exactly where the source yields.                             *)
(***************************************************************************)
EXTENDS Integers, Sequences, FiniteSets, TLC

(***************************************************************************)
(* Bounds of the model.                                                    *)
(***************************************************************************)
MaxClock == 3      \* the clock (Date.now) ends at MaxClock
MaxTasks == 2      \* handler invocations that may be in progress at once
MaxCalls == 2      \* handler invocations started after sign-in, in total
MaxTime == 14       \* timestamps an endpoint or the view is given: 0..MaxTime

Clients == {"tab1", "tab2"}     \* browser tabs signed in with the same uid

(***************************************************************************)
(* JavaScript values.                                                      *)
(***************************************************************************)
Undefined == "undefined"        \* the JS value undefined, in a text position
Null == "null"                  \* the JS value null (idle marker)
TextFields == {"id", "status", "question", "answer", "mistakes", "explanation",
               "answeredAt", "questionExplanation", "contextConversation",
               "askedAt", "level"}

\* JS truthiness of a text-valued expression.
Truthy(v) == v \notin {Undefined, Null, ""}

\* obj.k is present and truthy (`if (obj.k)`).
Has(obj, k) == k \in DOMAIN obj /\ Truthy(obj[k])

\* { ...a, ...b }
Merge(a, b) ==
  [k \in DOMAIN a \cup DOMAIN b |-> IF k \in DOMAIN b THEN b[k] ELSE a[k]]

\* {}
NoFields == [k \in {} |-> ""]

IsUndefined(obj, k) == k \in TextFields /\ obj[k] = Undefined

removeUndefined(obj) ==
  [k \in {f \in DOMAIN obj : ~IsUndefined(obj, f)} |-> obj[k]]

(***************************************************************************)
(* Clock: Date.now(), new Date().toISOString(), getTodayDate().            *)
(***************************************************************************)
TicksPerDay == 3
toISOString(t) == "T" \o ToString(t)
DateNowId(t) == ToString(t)
getTodayDate(t) == "D" \o ToString(t \div TicksPerDay)

(***************************************************************************)
(* Schema migration.                                                       *)
(***************************************************************************)
\* Variant: the type guard takes every entry for a legacy one.
isQuestionV1Always(question) == TRUE

\* A stored `answers`, when present, is an array in every document this
\* program or its earlier versions wrote, so the test is the key's presence.
isQuestionV1(question) == "answers" \notin DOMAIN question

OptionalCopies(oldQuestion) ==
  [k \in {f \in {"questionExplanation", "contextConversation", "askedAt"} :
            Has(oldQuestion, f)} |-> oldQuestion[k]]

migrateQuestion(question) ==
  IF ~isQuestionV1(question) THEN question
  ELSE IF Has(question, "answer") /\ Has(question, "answeredAt")
  THEN Merge([id |-> question.id,
              status |-> question.status,
              question |-> question.question,
              answers |-> <<[answer |-> question.answer,
                             isCorrect |-> IF "isCorrect" \in DOMAIN question
                                           THEN question.isCorrect ELSE FALSE,
                             mistakes |-> IF Has(question, "mistakes")
                                          THEN question.mistakes ELSE "none",
                             explanation |-> IF Has(question, "explanation")
                                             THEN question.explanation ELSE "",
                             answeredAt |-> question.answeredAt]>>],
             OptionalCopies(question))
  ELSE Merge([id |-> question.id,
              status |-> question.status,
              question |-> question.question,
              answers |-> <<>>],
             OptionalCopies(question))

migrateUserDocument(doc) ==
  [questions |-> [i \in 1..Len(doc.questions) |-> migrateQuestion(doc.questions[i])],
   dailyQuestions |-> doc.dailyQuestions,
   level |-> doc.level]

\* Variant: the write-back is made on every read.
needsUpdateAlways(rawDoc) == TRUE

needsUpdate(rawDoc) ==
  \E i \in 1..Len(rawDoc.questions) : isQuestionV1(rawDoc.questions[i])

initialDoc == [questions |-> <<>>, dailyQuestions |-> <<>>, level |-> "a0"]

(***************************************************************************)
(* Inputs: what the user types and what the external services answer.      *)
(***************************************************************************)
AnswerTexts == {"ja"}
Verdicts == {[correct |-> TRUE, mistakes |-> "none", explanation |-> "goed"],
             [correct |-> FALSE, mistakes |-> "fout", explanation |-> "nee"],
             \* the service's JSON carried no `explanation`
             [correct |-> FALSE, mistakes |-> "fout", explanation |-> Undefined]}
QuestionTexts == {"Hoe gaat het?"}
Conversations == {"gesprek1", "gesprek2"}
Explanations == {"uitleg1", "uitleg2"}

\* Documents found in the store at start: none, one an earlier version of the
\* application wrote (legacy entries), and the same one in the current shape.
LegacyAnswered ==
  [id |-> "0", status |-> "answered", question |-> "Wie ben je?",
   answer |-> "ik", answeredAt |-> toISOString(0), isCorrect |-> FALSE]
LegacyAsked ==
  [id |-> "1", status |-> "asked", question |-> "Waar woon je?",
   askedAt |-> toISOString(1)]
LegacyDoc ==
  [questions |-> <<LegacyAnswered, LegacyAsked>>, dailyQuestions |-> <<>>,
   level |-> "a0"]
StoredDocs == {LegacyDoc, migrateUserDocument(LegacyDoc)}

QuestionIds == {DateNowId(t) : t \in 0..MaxClock}

(***************************************************************************)
(* State.                                                                  *)
(***************************************************************************)
VARIABLES
  now,                   \* the clock
  store,                 \* <<>> when users/{uid} is absent, else <<document>>
  user,                  \* per tab: signed in
  userDoc,               \* per tab: React state userDoc, <<>> for null
  generatingQuestion,    \* per tab: in-flight markers (App.tsx 22-25)
  explainingQuestionId,
  generatingContextId,
  validatingQuestionId,
  tasks,                 \* handler invocations in progress, by slot
  calls,                 \* handler invocations started so far
  request,               \* <<>> or <<an HTTP request at an endpoint>>
  response               \* <<>> or <<the endpoint's response>>

vars == <<now, store, user, userDoc, generatingQuestion, explainingQuestionId,
          generatingContextId, validatingQuestionId, tasks, calls, request,
          response>>
markers == <<generatingQuestion, explainingQuestionId, generatingContextId,
             validatingQuestionId>>

Slots == 1..MaxTasks

IdleTask ==
  [client |-> "", kind |-> "idle", pc |-> "idle", ph |-> "idle", qid |-> Null,
   at |-> 0, q |-> <<>>, txt |-> "", updates |-> <<>>, first |-> FALSE, newQ |-> <<>>, base |-> <<>>,
   upd |-> <<>>]

Init ==
  /\ now = MaxClock - 1
  /\ store \in {<<>>} \cup {<<d>> : d \in StoredDocs}
  /\ user = [c \in Clients |-> FALSE]
  /\ userDoc = [c \in Clients |-> <<>>]
  /\ generatingQuestion = [c \in Clients |-> FALSE]
  /\ explainingQuestionId = [c \in Clients |-> Null]
  /\ generatingContextId = [c \in Clients |-> Null]
  /\ validatingQuestionId = [c \in Clients |-> Null]
  /\ tasks = [s \in Slots |-> IdleTask]
  /\ calls = 0
  /\ request = <<>>
  /\ response = <<>>

(***************************************************************************)
(* Helpers over documents and tasks.                                       *)
(***************************************************************************)
Ids(qs) == {qs[i].id : i \in 1..Len(qs)}

\* questions.find(q => q.id === questionId), <<>> when there is none
Find(qs, questionId) ==
  IF \E i \in 1..Len(qs) : qs[i].id = questionId
  THEN <<qs[CHOOSE i \in 1..Len(qs) :
              /\ qs[i].id = questionId
              /\ \A j \in 1..(i - 1) : qs[j].id # questionId]>>
  ELSE <<>>

HasFree == \E s \in Slots : tasks[s].kind = "idle"
FreeSlot == CHOOSE s \in Slots :
              /\ tasks[s].kind = "idle"
              /\ \A r \in 1..(s - 1) : tasks[r].kind # "idle"

\* Variant: handleGenerateContext without its `finally`.
FinallyKeepsContext(t) ==
  /\ generatingQuestion' =
       IF t.kind = "gen" THEN [generatingQuestion EXCEPT ![t.client] = FALSE]
       ELSE generatingQuestion
  /\ validatingQuestionId' =
       IF t.kind = "ans" THEN [validatingQuestionId EXCEPT ![t.client] = Null]
       ELSE validatingQuestionId
  /\ generatingContextId' = generatingContextId
  /\ explainingQuestionId' =
       IF t.kind = "exp" THEN [explainingQuestionId EXCEPT ![t.client] = Null]
       ELSE explainingQuestionId

\* The `finally` blocks: the marker of the handler's kind goes back to idle.
Finally(t) ==
  /\ generatingQuestion' =
       IF t.kind = "gen" THEN [generatingQuestion EXCEPT ![t.client] = FALSE]
       ELSE generatingQuestion
  /\ validatingQuestionId' =
       IF t.kind = "ans" THEN [validatingQuestionId EXCEPT ![t.client] = Null]
       ELSE validatingQuestionId
  /\ generatingContextId' =
       IF t.kind = "ctx" THEN [generatingContextId EXCEPT ![t.client] = Null]
       ELSE generatingContextId
  /\ explainingQuestionId' =
       IF t.kind = "exp" THEN [explainingQuestionId EXCEPT ![t.client] = Null]
       ELSE explainingQuestionId

(***************************************************************************)
(* Repository (firestore.ts).  getUserDocument is a read, then either the  *)
(* creation of the initial document, or the migration write-back, or       *)
(* nothing; each of the other operations is a getUserDocument followed by  *)
(* one updateDoc of the field it rewrites.                                 *)
(***************************************************************************)
Range(f) == {f[i] : i \in DOMAIN f}

\* Variant: an id that matches no question adds the fields as a new entry.
updatedQuestionsUpserts(qs, questionId, updates) ==
  IF questionId \in {qs[i].id : i \in 1..Len(qs)}
  THEN [i \in 1..Len(qs) |->
          IF qs[i].id = questionId
          THEN removeUndefined(Merge(qs[i], removeUndefined(updates)))
          ELSE qs[i]]
  ELSE Append(qs, removeUndefined(Merge([id |-> questionId], removeUndefined(updates))))

\* Variant: the rewritten sequence keeps only the question that was updated.
updatedQuestionsDropsOthers(qs, questionId, updates) ==
  LET hit == CHOOSE S \in SUBSET (1..Len(qs)) :
                \A i \in 1..Len(qs) : i \in S <=> qs[i].id = questionId
  IN  IF hit = {} THEN qs
      ELSE <<removeUndefined(Merge(qs[CHOOSE i \in hit : TRUE],
                                   removeUndefined(updates)))>>

\* Variant: the spread is taken the other way round, the stored fields
\* overriding the updates.
updatedQuestionsStoredWins(qs, questionId, updates) ==
  [i \in 1..Len(qs) |->
     IF qs[i].id = questionId
     THEN removeUndefined(Merge(removeUndefined(updates), qs[i]))
     ELSE qs[i]]

\* updateQuestion, lines 155-164: the rewritten `questions` sequence
updatedQuestions(qs, questionId, updates) ==
  [i \in 1..Len(qs) |->
     IF qs[i].id = questionId
     THEN removeUndefined(Merge(qs[i], removeUndefined(updates)))
     ELSE qs[i]]

EmptyDay == [askedQuestionIds |-> <<>>, answeredQuestionIds |-> <<>>]

\* Variant: the id is pushed without the `includes` test.
markedDailyAlwaysPushes(dailyQuestions, today, field, questionId) ==
  LET todayQuestions == IF today \in DOMAIN dailyQuestions
                        THEN dailyQuestions[today] ELSE EmptyDay
      pushed == [todayQuestions EXCEPT ![field] = Append(@, questionId)]
  IN  Merge(dailyQuestions, [d \in {today} |-> pushed])

\* Variant: today's record is started afresh on every call.
markedDailyFreshDay(dailyQuestions, today, field, questionId) ==
  LET todayQuestions == EmptyDay
      pushed == [todayQuestions EXCEPT ![field] = Append(@, questionId)]
  IN  Merge(dailyQuestions, [d \in {today} |-> pushed])

\* Variant: the records of the other dates are not spread into the update.
markedDailyOnlyToday(dailyQuestions, today, field, questionId) ==
  LET todayQuestions == IF today \in DOMAIN dailyQuestions
                        THEN dailyQuestions[today] ELSE EmptyDay
      pushed == IF questionId \in Range(todayQuestions[field])
                THEN todayQuestions
                ELSE [todayQuestions EXCEPT ![field] = Append(@, questionId)]
  IN  [d \in {today} |-> pushed]

\* markQuestionAsked / markQuestionAnswered, the rewritten `dailyQuestions`
markedDaily(dailyQuestions, today, field, questionId) ==
  LET todayQuestions == IF today \in DOMAIN dailyQuestions
                        THEN dailyQuestions[today] ELSE EmptyDay
      pushed == IF questionId \in Range(todayQuestions[field])
                THEN todayQuestions
                ELSE [todayQuestions EXCEPT ![field] = Append(@, questionId)]
  IN  Merge(dailyQuestions, [d \in {today} |-> pushed])

\* Variant: addQuestion puts the new question first.
PayloadPrepends(t, d) ==
  CASE t.pc = "addQuestion" ->
         [questions |-> t.newQ \o d.questions]
    [] t.pc = "updateQuestion" ->
         [questions |-> updatedQuestions(d.questions, t.qid, t.updates[1])]
    [] t.pc = "markQuestionAsked" ->
         [dailyQuestions |->
            markedDaily(d.dailyQuestions, getTodayDate(now), "askedQuestionIds", t.qid)]
    [] t.pc = "markQuestionAnswered" ->
         [dailyQuestions |->
            markedDaily(d.dailyQuestions, getTodayDate(now), "answeredQuestionIds", t.qid)]

\* Variant: markQuestionAnswered pushes to askedQuestionIds.
PayloadMarksAsked(t, d) ==
  CASE t.pc = "addQuestion" ->
         [questions |-> d.questions \o t.newQ]
    [] t.pc = "updateQuestion" ->
         [questions |-> updatedQuestions(d.questions, t.qid, t.updates[1])]
    [] t.pc = "markQuestionAsked" ->
         [dailyQuestions |->
            markedDaily(d.dailyQuestions, getTodayDate(now), "askedQuestionIds", t.qid)]
    [] t.pc = "markQuestionAnswered" ->
         [dailyQuestions |->
            markedDaily(d.dailyQuestions, getTodayDate(now), "askedQuestionIds", t.qid)]

\* The argument of the updateUserDocument call each repository operation ends
\* with, computed from the document d its getUserDocument returned.
Payload(t, d) ==
  CASE t.pc = "addQuestion" ->
         [questions |-> d.questions \o t.newQ]
    [] t.pc = "updateQuestion" ->
         [questions |-> updatedQuestions(d.questions, t.qid, t.updates[1])]
    [] t.pc = "markQuestionAsked" ->
         [dailyQuestions |->
            markedDaily(d.dailyQuestions, getTodayDate(now), "askedQuestionIds", t.qid)]
    [] t.pc = "markQuestionAnswered" ->
         [dailyQuestions |->
            markedDaily(d.dailyQuestions, getTodayDate(now), "answeredQuestionIds", t.qid)]

\* Variant: handleNewQuestion stops after addQuestion.
NextPcSkipsLedger(t) ==
  CASE t.pc = "updateQuestion" /\ t.kind = "ans" /\ t.first -> "markQuestionAnswered"
    [] OTHER -> "getUserDocument"

\* The handler's next repository call once the write of t.pc has returned.
NextPc(t) ==
  CASE t.pc = "addQuestion" -> "markQuestionAsked"
    [] t.pc = "updateQuestion" /\ t.kind = "ans" /\ t.first -> "markQuestionAnswered"
    [] OTHER -> "getUserDocument"

\* The document store rejects a write that carries an undefined value at any
\* depth ("Firestore doesn't accept undefined").
storeAccepts(fields) ==
  /\ \A k \in DOMAIN fields : ~IsUndefined(fields, k)
  /\ "questions" \in DOMAIN fields =>
       \A i \in 1..Len(fields.questions) :
          LET q == fields.questions[i] IN
          /\ \A k \in DOMAIN q : ~IsUndefined(q, k)
          /\ "answers" \in DOMAIN q =>
               \A j \in 1..Len(q.answers) :
                  \A k \in DOMAIN q.answers[j] : ~IsUndefined(q.answers[j], k)

\* A repository operation called on its own has returned to its caller.
Returned(t) == [IdleTask EXCEPT !.ph = "done", !.pc = t.pc, !.qid = t.qid]

\* Variant: the fields are set over an empty document of the same level,
\* as setDoc without merge would.
updateDocReplaces(document, fields) ==
  Merge([initialDoc EXCEPT !.level = document.level], fields)

\* updateDoc(docRef, fields): the named top-level fields are replaced.
updateDoc(document, fields) == Merge(document, fields)

\* getUserDocument has returned document d to task t in slot s; t keeps in
\* `base` the stored value its getDoc saw, <<>> for an absent document.
AfterGet(s, t, d, seen) ==
  IF t.pc = "getUserDocument"
  THEN /\ userDoc' = [userDoc EXCEPT ![t.client] = <<d>>]
       /\ Finally(t)
       /\ tasks' = [tasks EXCEPT ![s] = IdleTask]
  ELSE /\ tasks' = [tasks EXCEPT ![s] =
                      [t EXCEPT !.ph = "write", !.base = seen,
                                !.upd = <<Payload(t, d)>>]]
       /\ UNCHANGED <<userDoc, markers>>

\* await getDoc(docRef) resolves
GetDocReturns(s) ==
  LET t == tasks[s] IN
  /\ t.ph = "read"
  /\ IF store = <<>>
     THEN /\ tasks' = [tasks EXCEPT ![s] = [t EXCEPT !.ph = "create"]]
          /\ UNCHANGED <<userDoc, markers>>
     ELSE IF needsUpdate(store[1])
     THEN /\ tasks' = [tasks EXCEPT ![s] =
                         [t EXCEPT !.ph = "migrate", !.base = store]]
          /\ UNCHANGED <<userDoc, markers>>
     ELSE AfterGet(s, t, migrateUserDocument(store[1]), store)
  /\ UNCHANGED <<request, response, now, store, user, calls>>

\* Variant: the initial document is returned without being persisted.
SetDocReturnsUnsaved(s) ==
  LET t == tasks[s] IN
  /\ t.ph = "create"
  /\ store' = store
  /\ AfterGet(s, t, initialDoc, <<>>)
  /\ UNCHANGED <<request, response, now, user, calls>>

\* await setDoc(docRef, initialDoc) resolves
SetDocReturns(s) ==
  LET t == tasks[s] IN
  /\ t.ph = "create"
  /\ store' = <<initialDoc>>
  /\ AfterGet(s, t, initialDoc, <<>>)
  /\ UNCHANGED <<request, response, now, user, calls>>

\* Variant: the write-back submits the questions as they were read.
MigrationWriteBackRaw(s) ==
  LET t == tasks[s]
      migratedDoc == migrateUserDocument(t.base[1])
  IN
  /\ t.ph = "migrate"
  /\ store # <<>>
  /\ store' = <<updateDoc(store[1], [questions |-> t.base[1].questions])>>
  /\ AfterGet(s, t, migratedDoc, t.base)
  /\ UNCHANGED <<request, response, now, user, calls>>

\* await updateDoc(docRef, { questions: migratedDoc.questions }) resolves
MigrationWriteBack(s) ==
  LET t == tasks[s]
      migratedDoc == migrateUserDocument(t.base[1])
  IN
  /\ t.ph = "migrate"
  /\ store # <<>>
  /\ store' = <<updateDoc(store[1], [questions |-> migratedDoc.questions])>>
  /\ AfterGet(s, t, migratedDoc, t.base)
  /\ UNCHANGED <<request, response, now, user, calls>>

\* updateUserDocument: await updateDoc(docRef, cleanedUpdates) resolves
UpdateDocReturns(s) ==
  LET t == tasks[s] IN
  /\ t.ph = "write"
  /\ store # <<>>
  /\ storeAccepts(removeUndefined(t.upd[1]))
  /\ store' = <<updateDoc(store[1], removeUndefined(t.upd[1]))>>
  /\ tasks' = [tasks EXCEPT ![s] =
                 IF t.kind = "repo" THEN Returned(t)
                 ELSE [t EXCEPT !.pc = NextPc(t), !.ph = "read", !.upd = <<>>,
                                !.base = <<>>, !.updates = <<>>, !.newQ = <<>>]]
  /\ UNCHANGED <<request, response, now, user, userDoc, markers, calls>>

\* Any awaited call (service or store) rejects: the handler's catch logs and
\* its finally clears the marker; the store is not written.  A repository
\* operation called on its own passes the error on to its caller.
Throw(s) ==
  LET t == tasks[s] IN
  /\ t.kind # "idle"
  /\ Finally(t)
  /\ tasks' = [tasks EXCEPT ![s] = IdleTask]
  /\ UNCHANGED <<request, response, now, store, user, userDoc, calls>>

Tick ==
  /\ now < MaxClock
  /\ now' = now + 1
  /\ UNCHANGED <<request, response, store, user, userDoc, markers, tasks, calls>>

(***************************************************************************)
(* Service endpoints (api/*.ts).  A handler's outcome is the response it   *)
(* sends and the prompt it passed to the text-generation model, <<>> when  *)
(* the model was not invoked.  `ai` is what generateContent does once      *)
(* invoked: <<>> when it rejects, else <<its response>>.  A request is its *)
(* method and its parsed body, <<>> when the request carried none.         *)
(***************************************************************************)
AiTexts == {Undefined, "", " ", "Hoe gaat het?"}
AiResponses == {<<>>} \cup {<<x>> : x \in AiTexts}

\* String.prototype.trim on the texts above
trim(text) == IF text = " " THEN "" ELSE text

\* new Date(iso).getTime()
getTime(iso) == CHOOSE t \in 0..MaxTime : toISOString(t) = iso

Outcome(status, body, prompt) ==
  [status |-> status, body |-> body, prompt |-> prompt]

\* `const { k } = req.body`: undefined when the key is absent
Field(body, k) == IF k \in DOMAIN body THEN body[k] ELSE Undefined

\* a.answers[a.answers.length - 1] is undefined, and reading a property of it
\* throws a TypeError
lastAnswerThrows(q) == "answers" \notin DOMAIN q \/ Len(q.answers) = 0
lastAnswer(q) == q.answers[Len(q.answers)]

\* aTime, bTime of the sort's comparator
answerTime(q) ==
  IF Has(lastAnswer(q), "answeredAt") THEN getTime(lastAnswer(q).answeredAt)
  ELSE 0

\* Array.prototype.sort((a, b) => aTime - bTime): ascending and stable
RECURSIVE sortByTime(_)
sortByTime(qs) ==
  IF Len(qs) <= 1 THEN qs
  ELSE LET front == sortByTime(SubSeq(qs, 1, Len(qs) - 1))
           x == qs[Len(qs)]
           k == Cardinality({i \in 1..Len(front) :
                               answerTime(front[i]) <= answerTime(x)})
       IN  SubSeq(front, 1, k) \o <<x>> \o SubSeq(front, k + 1, Len(front))

IsAnswered(q) == q.status = "answered"

\* conversationHistory, health.ts 34-42: <<>> when the sort or the map throws,
\* else <<the Q/A pairs in order>>
conversationHistory(answeredQuestions) ==
  LET filtered == SelectSeq(answeredQuestions, IsAnswered) IN
  IF \E i \in 1..Len(filtered) : lastAnswerThrows(filtered[i]) THEN <<>>
  ELSE LET sorted == sortByTime(filtered) IN
       <<[i \in 1..Len(sorted) |->
            [Q |-> sorted[i].question, A |-> lastAnswer(sorted[i]).answer]]>>

\* Variant: the handler trims whatever text the model returned, unchecked.
generateQuestionHandlerAnyText(req, ai) ==
  LET failed == [error |-> "Failed to generate question"] IN
  IF req.method # "POST"
  THEN Outcome(405, [error |-> "Method not allowed"], <<>>)
  ELSE IF req.body = <<>> THEN Outcome(500, failed, <<>>)
  ELSE LET body == req.body[1] IN
  IF "answeredQuestions" \notin DOMAIN body \/ ~Truthy(Field(body, "currentLevel"))
  THEN Outcome(400, [error |-> "Missing required fields"], <<>>)
  ELSE LET history == conversationHistory(body.answeredQuestions) IN
  IF history = <<>> THEN Outcome(500, failed, <<>>)
  ELSE LET prompt == <<[history |-> history[1], level |-> body.currentLevel]>> IN
  IF ai = <<>> THEN Outcome(500, failed, prompt)
  ELSE Outcome(200, [question |-> trim(ai[1])], prompt)

\* api/generate-question, health.ts 18-68
generateQuestionHandler(req, ai) ==
  LET failed == [error |-> "Failed to generate question"] IN
  IF req.method # "POST"
  THEN Outcome(405, [error |-> "Method not allowed"], <<>>)
  ELSE IF req.body = <<>> THEN Outcome(500, failed, <<>>)
  ELSE LET body == req.body[1] IN
  IF "answeredQuestions" \notin DOMAIN body \/ ~Truthy(Field(body, "currentLevel"))
  THEN Outcome(400, [error |-> "Missing required fields"], <<>>)
  ELSE LET history == conversationHistory(body.answeredQuestions) IN
  IF history = <<>> THEN Outcome(500, failed, <<>>)
  ELSE LET prompt == <<[history |-> history[1], level |-> body.currentLevel]>> IN
  IF ai = <<>> \/ ~Truthy(ai[1]) THEN Outcome(500, failed, prompt)
  ELSE Outcome(200, [question |-> trim(ai[1])], prompt)

\* services/api generateQuestion, part_001 5-33: <<>> when it throws, else
\* <<data.question>>
generateQuestion(outcome) ==
  IF outcome.status = 200 THEN <<outcome.body.question>> ELSE <<>>

\* JSON documents the model may return to validate-answer
JsonFull == "{\"correct\":true,\"mistakes\":\"none\",\"explanation\":\"goed\"}"
JsonNoExplanation == "{\"correct\":false,\"mistakes\":\"fout\"}"
JsonEmpty == "{}"
ValidationTexts == {Undefined, "", "{", JsonFull, JsonNoExplanation, JsonEmpty}

\* JSON.parse(text): <<>> when it throws a SyntaxError, else <<the value>>
JSONparse(text) ==
  CASE text = JsonFull ->
         <<[correct |-> TRUE, mistakes |-> "none", explanation |-> "goed"]>>
    [] text = JsonNoExplanation -> <<[correct |-> FALSE, mistakes |-> "fout"]>>
    [] text = JsonEmpty -> <<NoFields>>
    [] OTHER -> <<>>

\* res.json({ k: v }): a key whose value is undefined is left out
JsonKey(obj, k) == IF k \in DOMAIN obj THEN [f \in {k} |-> obj[k]] ELSE NoFields

\* api/validate-answer, part_000 28-82
validateAnswerHandler(req, ai) ==
  LET failed == [error |-> "Failed to validate answer"] IN
  IF req.method # "POST"
  THEN Outcome(405, [error |-> "Method not allowed"], <<>>)
  ELSE IF req.body = <<>> THEN Outcome(500, failed, <<>>)
  ELSE LET body == req.body[1] IN
  IF ~Truthy(Field(body, "question")) \/ ~Truthy(Field(body, "answer"))
  THEN Outcome(400, [error |-> "Missing question or answer"], <<>>)
  ELSE LET prompt == <<[question |-> body.question, answer |-> body.answer]>> IN
  IF ai = <<>> \/ ~Truthy(ai[1]) THEN Outcome(500, failed, prompt)
  ELSE IF JSONparse(ai[1]) = <<>> THEN Outcome(500, failed, prompt)
  ELSE LET result == JSONparse(ai[1])[1] IN
       Outcome(200,
               Merge(Merge(JsonKey(result, "correct"),
                           [mistakes |-> IF Has(result, "mistakes")
                                         THEN result.mistakes ELSE "none"]),
                     JsonKey(result, "explanation")),
               prompt)

\* api/generate-context, generate-context.ts 8-57
generateContextHandler(req, ai) ==
  LET failed == [error |-> "Failed to generate context"] IN
  IF req.method # "POST"
  THEN Outcome(405, [error |-> "Method not allowed"], <<>>)
  ELSE IF req.body = <<>> THEN Outcome(500, failed, <<>>)
  ELSE LET body == req.body[1] IN
  IF ~Truthy(Field(body, "question")) \/ ~Truthy(Field(body, "level"))
  THEN Outcome(400, [error |-> "Missing question or level"], <<>>)
  ELSE LET prompt == <<[question |-> body.question, level |-> body.level]>> IN
  IF ai = <<>> \/ ~Truthy(ai[1]) THEN Outcome(500, failed, prompt)
  ELSE Outcome(200, [conversation |-> trim(ai[1])], prompt)

\* api/explain-question, generate-context.ts 66-103
explainQuestionHandler(req, ai) ==
  LET failed == [error |-> "Failed to explain question"] IN
  IF req.method # "POST"
  THEN Outcome(405, [error |-> "Method not allowed"], <<>>)
  ELSE IF req.body = <<>> THEN Outcome(500, failed, <<>>)
  ELSE LET body == req.body[1] IN
  IF ~Truthy(Field(body, "question")) \/ ~Truthy(Field(body, "level"))
  THEN Outcome(400, [error |-> "Missing question or level"], <<>>)
  ELSE LET prompt == <<[question |-> body.question, level |-> body.level]>> IN
  IF ai = <<>> \/ ~Truthy(ai[1]) THEN Outcome(500, failed, prompt)
  ELSE Outcome(200, [explanation |-> trim(ai[1])], prompt)

(***************************************************************************)
(* The endpoints on their own: a request arrives at one of them, with what *)
(* the model will do if invoked (field `ai`), and the handler answers it.  *)
(***************************************************************************)
Answered(text, answers) ==
  [id |-> text, status |-> "answered", question |-> text, answers |-> answers]
AnswerAt(answeredAt) ==
  [answer |-> "ja", isCorrect |-> TRUE, mistakes |-> "none",
   explanation |-> "goed", answeredAt |-> answeredAt]

\* Questions a request may carry: answered early and late, answered with an
\* answer that has no timestamp, answered with no answer at all (a migrated
\* legacy entry without answer fields), and not answered.
RequestQuestions ==
  {Answered("vroeg", <<AnswerAt(toISOString(1))>>),
   Answered("laat", <<AnswerAt(toISOString(0)), AnswerAt(toISOString(3))>>),
   Answered("ooit", <<AnswerAt("")>>),
   Answered("leeg", <<>>),
   [Answered("open", <<>>) EXCEPT !.status = "asked"]}

RequestLists ==
  {<<>>} \cup {<<a>> : a \in RequestQuestions}
         \cup {l \in RequestQuestions \X RequestQuestions : l[1] # l[2]}
         \cup {l \in RequestQuestions \X RequestQuestions \X RequestQuestions :
                  l[1] # l[2] /\ l[1] # l[3] /\ l[2] # l[3]}

Bodies(records) == {<<>>, <<NoFields>>} \cup {<<b>> : b \in records}

GenerateQuestionBodies ==
  Bodies([answeredQuestions : RequestLists, currentLevel : {"a0"}]
         \cup [answeredQuestions : {<<>>}, currentLevel : {""}]
         \cup [answeredQuestions : {<<>>}] \cup [currentLevel : {"a0"}])

ValidateAnswerBodies ==
  Bodies([question : {"", "Hoe gaat het?"}, answer : {"", "ja"}]
         \cup [question : {"Hoe gaat het?"}] \cup [answer : {"ja"}])

QuestionLevelBodies ==
  Bodies([question : {"", "Hoe gaat het?"}, level : {"", "a0"}]
         \cup [question : {"Hoe gaat het?"}] \cup [level : {"a0"}])

Methods == {"POST", "GET"}

Requests ==
  [url : {"generate-question"}, method : Methods,
   body : GenerateQuestionBodies, ai : AiResponses]
  \cup [url : {"validate-answer"}, method : Methods, body : ValidateAnswerBodies,
        ai : {<<>>} \cup {<<x>> : x \in ValidationTexts}]
  \cup [url : {"generate-context", "explain-question"}, method : Methods,
        body : QuestionLevelBodies, ai : AiResponses]

InitApi ==
  /\ now = 0
  /\ store = <<>>
  /\ user = [c \in Clients |-> FALSE]
  /\ userDoc = [c \in Clients |-> <<>>]
  /\ generatingQuestion = [c \in Clients |-> FALSE]
  /\ explainingQuestionId = [c \in Clients |-> Null]
  /\ generatingContextId = [c \in Clients |-> Null]
  /\ validatingQuestionId = [c \in Clients |-> Null]
  /\ tasks = [s \in Slots |-> IdleTask]
  /\ calls = 0
  /\ request \in {<<r>> : r \in Requests}
  /\ response = <<>>

generateQuestionEndpoint ==
  /\ response = <<>>
  /\ request[1].url = "generate-question"
  /\ response' = <<generateQuestionHandler(request[1], request[1].ai)>>
  /\ UNCHANGED <<request, now, store, user, userDoc, markers, tasks, calls>>

validateAnswerEndpoint ==
  /\ response = <<>>
  /\ request[1].url = "validate-answer"
  /\ response' = <<validateAnswerHandler(request[1], request[1].ai)>>
  /\ UNCHANGED <<request, now, store, user, userDoc, markers, tasks, calls>>

generateContextEndpoint ==
  /\ response = <<>>
  /\ request[1].url = "generate-context"
  /\ response' = <<generateContextHandler(request[1], request[1].ai)>>
  /\ UNCHANGED <<request, now, store, user, userDoc, markers, tasks, calls>>

explainQuestionEndpoint ==
  /\ response = <<>>
  /\ request[1].url = "explain-question"
  /\ response' = <<explainQuestionHandler(request[1], request[1].ai)>>
  /\ UNCHANGED <<request, now, store, user, userDoc, markers, tasks, calls>>

NextApi ==
  \/ generateQuestionEndpoint
  \/ validateAnswerEndpoint
  \/ generateContextEndpoint
  \/ explainQuestionEndpoint

SpecApi == InitApi /\ [][NextApi]_vars

(***************************************************************************)
(* Lifecycle controller (App.tsx).  A handler invocation that returns at   *)
(* its guard, at `if (!question) return` or at the cache check changes     *)
(* nothing (the marker is set and cleared in the same synchronous run);    *)
(* one that passes them sets its marker and becomes a task awaiting the    *)
(* external service.                                                       *)
(***************************************************************************)
NewTask(c, kind, pc, ph, questionId, question, text) ==
  [IdleTask EXCEPT !.client = c, !.kind = kind, !.pc = pc, !.ph = ph,
                   !.qid = questionId, !.q = question, !.txt = text]

\* onAuthStateChanged callback, lines 40-49
SignIn(c) ==
  /\ ~user[c]
  /\ HasFree
  /\ user' = [user EXCEPT ![c] = TRUE]
  /\ tasks' = [tasks EXCEPT ![FreeSlot] =
                 NewTask(c, "load", "getUserDocument", "read", Null, <<>>, "")]
  /\ UNCHANGED <<request, response, now, store, userDoc, markers, calls>>

\* Variant: handleAnswer's guard without the in-flight marker.
answerGuardNoMarker(c) == ~user[c] \/ userDoc[c] = <<>>

\* The guards `if (!user || !userDoc || <marker>) return`
newQuestionGuard(c) == ~user[c] \/ userDoc[c] = <<>> \/ generatingQuestion[c]
answerGuard(c) == ~user[c] \/ userDoc[c] = <<>> \/ Truthy(validatingQuestionId[c])
contextGuard(c) == ~user[c] \/ userDoc[c] = <<>> \/ Truthy(generatingContextId[c])
explainGuard(c) == ~user[c] \/ userDoc[c] = <<>> \/ Truthy(explainingQuestionId[c])

\* handleNewQuestion, lines 76-82
handleNewQuestion(c) ==
  /\ ~newQuestionGuard(c)
  /\ HasFree
  /\ calls < MaxCalls
  /\ calls' = calls + 1
  /\ generatingQuestion' = [generatingQuestion EXCEPT ![c] = TRUE]
  /\ tasks' = [tasks EXCEPT ![FreeSlot] =
                 [NewTask(c, "gen", "generateQuestion", "svc", Null,
                          SelectSeq(userDoc[c][1].questions, IsAnswered),
                          userDoc[c][1].level)
                    EXCEPT !.at = now]]
  /\ UNCHANGED <<request, response, now, store, user, userDoc, explainingQuestionId,
                 generatingContextId, validatingQuestionId>>

\* await generateQuestion(...) resolves or rejects, lines 82-92, 97-101: the
\* endpoint answers the POST the service module sent; t.q and t.txt are the
\* answered questions and the level the handler passed.
GenerateQuestionReturns(s, ai) ==
  LET t == tasks[s]
      outcome == generateQuestionHandler(
                   [method |-> "POST",
                    body |-> <<[answeredQuestions |-> t.q,
                                currentLevel |-> t.txt]>>], ai)
      questionText == generateQuestion(outcome)
  IN
  /\ t.kind = "gen" /\ t.ph = "svc"
  /\ now > t.at          \* the round trip to the service takes time
  /\ response' = <<outcome>>
  /\ IF questionText = <<>>
     THEN /\ Finally(t)
          /\ tasks' = [tasks EXCEPT ![s] = IdleTask]
     ELSE /\ tasks' = [tasks EXCEPT ![s] =
                         [t EXCEPT !.pc = "addQuestion", !.ph = "read", !.at = 0,
                                   !.q = <<>>, !.txt = "",
                                   !.qid = DateNowId(now),
                                   !.newQ = <<[id |-> DateNowId(now),
                                               status |-> "asked",
                                               question |-> questionText[1],
                                               answers |-> <<>>,
                                               askedAt |-> toISOString(now)]>>]]
          /\ UNCHANGED markers
  /\ UNCHANGED <<request, now, store, user, userDoc, calls>>

\* handleAnswer, lines 104-112
handleAnswer(c, questionId, answerText) ==
  /\ ~answerGuard(c)
  /\ Find(userDoc[c][1].questions, questionId) # <<>>
  /\ HasFree
  /\ calls < MaxCalls
  /\ calls' = calls + 1
  /\ validatingQuestionId' = [validatingQuestionId EXCEPT ![c] = questionId]
  /\ tasks' = [tasks EXCEPT ![FreeSlot] =
                 NewTask(c, "ans", "validateAnswer", "svc", questionId,
                         Find(userDoc[c][1].questions, questionId), answerText)]
  /\ UNCHANGED <<request, response, now, store, user, userDoc, generatingQuestion,
                 explainingQuestionId, generatingContextId>>

\* Variant: the status becomes `answered` only on a correct first answer.
answerUpdatesOnlyIfCorrect(question, answerText, validation, t) ==
  LET newAnswer == [answer |-> answerText,
                    isCorrect |-> validation.correct,
                    mistakes |-> validation.mistakes,
                    explanation |-> validation.explanation,
                    answeredAt |-> toISOString(t)]
      existingAnswers == IF "answers" \in DOMAIN question
                         THEN question.answers ELSE <<>>
  IN  [answers |-> Append(existingAnswers, newAnswer),
       status |-> IF Len(existingAnswers) = 0 /\ validation.correct
                  THEN "answered" ELSE question.status]

\* Variant: a later answer puts the status back to `asked`.
answerUpdatesResetsStatus(question, answerText, validation, t) ==
  LET newAnswer == [answer |-> answerText,
                    isCorrect |-> validation.correct,
                    mistakes |-> validation.mistakes,
                    explanation |-> validation.explanation,
                    answeredAt |-> toISOString(t)]
      existingAnswers == IF "answers" \in DOMAIN question
                         THEN question.answers ELSE <<>>
  IN  [answers |-> Append(existingAnswers, newAnswer),
       status |-> IF Len(existingAnswers) = 0 THEN "answered" ELSE "asked"]

\* Variant: the status is left as the handler found it.
answerUpdatesKeepsStatus(question, answerText, validation, t) ==
  LET newAnswer == [answer |-> answerText,
                    isCorrect |-> validation.correct,
                    mistakes |-> validation.mistakes,
                    explanation |-> validation.explanation,
                    answeredAt |-> toISOString(t)]
      existingAnswers == IF "answers" \in DOMAIN question
                         THEN question.answers ELSE <<>>
  IN  [answers |-> Append(existingAnswers, newAnswer),
       status |-> question.status]

\* lines 114-131: the `updates` argument of updateQuestion
answerUpdates(question, answerText, validation, t) ==
  LET newAnswer == [answer |-> answerText,
                    isCorrect |-> validation.correct,
                    mistakes |-> validation.mistakes,
                    explanation |-> validation.explanation,
                    answeredAt |-> toISOString(t)]
      existingAnswers == IF "answers" \in DOMAIN question
                         THEN question.answers ELSE <<>>
  IN  [answers |-> Append(existingAnswers, newAnswer),
       status |-> IF Len(existingAnswers) = 0 THEN "answered" ELSE question.status]

\* await validateAnswer(...) resolves, lines 112-127; the endpoint answers
\* 400 to an empty question or answer (part_000 39-41)
ValidateAnswerReturns(s, validation) ==
  LET t == tasks[s] IN
  /\ t.kind = "ans" /\ t.ph = "svc"
  /\ Truthy(t.q[1].question) /\ Truthy(t.txt)
  /\ tasks' = [tasks EXCEPT ![s] =
                 [t EXCEPT !.pc = "updateQuestion", !.ph = "read",
                           !.q = <<>>, !.txt = "",
                           !.first = (Len(t.q[1].answers) = 0),
                           !.updates =
                              <<answerUpdates(t.q[1], t.txt, validation, now)>>]]
  /\ UNCHANGED <<request, response, now, store, user, userDoc, markers, calls>>

\* handleGenerateContext, lines 147-160
handleGenerateContext(c, questionId) ==
  /\ ~contextGuard(c)
  /\ Find(userDoc[c][1].questions, questionId) # <<>>
  /\ ~Has(Find(userDoc[c][1].questions, questionId)[1], "contextConversation")
  /\ HasFree
  /\ calls < MaxCalls
  /\ calls' = calls + 1
  /\ generatingContextId' = [generatingContextId EXCEPT ![c] = questionId]
  /\ tasks' = [tasks EXCEPT ![FreeSlot] =
                 NewTask(c, "ctx", "generateContext", "svc", questionId, <<>>,
                         Find(userDoc[c][1].questions, questionId)[1].question)]
  /\ UNCHANGED <<request, response, now, store, user, userDoc, generatingQuestion,
                 explainingQuestionId, validatingQuestionId>>

\* await generateContext(...) resolves, lines 160-164; the endpoint answers
\* 400 to an empty question (generate-context.ts 19-21)
GenerateContextReturns(s, contextConversation) ==
  LET t == tasks[s] IN
  /\ t.kind = "ctx" /\ t.ph = "svc"
  /\ Truthy(t.txt)
  /\ tasks' = [tasks EXCEPT ![s] =
                 [t EXCEPT !.pc = "updateQuestion", !.ph = "read", !.txt = "",
                           !.updates =
                              <<[contextConversation |-> contextConversation]>>]]
  /\ UNCHANGED <<request, response, now, store, user, userDoc, markers, calls>>

\* Variant: handleExplain without its cache check.
handleExplainAlways(c, questionId) ==
  /\ ~explainGuard(c)
  /\ Find(userDoc[c][1].questions, questionId) # <<>>
  /\ HasFree
  /\ calls < MaxCalls
  /\ calls' = calls + 1
  /\ explainingQuestionId' = [explainingQuestionId EXCEPT ![c] = questionId]
  /\ tasks' = [tasks EXCEPT ![FreeSlot] =
                 NewTask(c, "exp", "explainQuestion", "svc", questionId, <<>>,
                         Find(userDoc[c][1].questions, questionId)[1].question)]
  /\ UNCHANGED <<request, response, now, store, user, userDoc, generatingQuestion,
                 generatingContextId, validatingQuestionId>>

\* handleExplain, lines 175-188
handleExplain(c, questionId) ==
  /\ ~explainGuard(c)
  /\ Find(userDoc[c][1].questions, questionId) # <<>>
  /\ ~Has(Find(userDoc[c][1].questions, questionId)[1], "questionExplanation")
  /\ HasFree
  /\ calls < MaxCalls
  /\ calls' = calls + 1
  /\ explainingQuestionId' = [explainingQuestionId EXCEPT ![c] = questionId]
  /\ tasks' = [tasks EXCEPT ![FreeSlot] =
                 NewTask(c, "exp", "explainQuestion", "svc", questionId, <<>>,
                         Find(userDoc[c][1].questions, questionId)[1].question)]
  /\ UNCHANGED <<request, response, now, store, user, userDoc, generatingQuestion,
                 generatingContextId, validatingQuestionId>>

\* await explainQuestion(...) resolves, lines 188-192; the endpoint answers
\* 400 to an empty question (generate-context.ts 77-79)
ExplainQuestionReturns(s, questionExplanation) ==
  LET t == tasks[s] IN
  /\ t.kind = "exp" /\ t.ph = "svc"
  /\ Truthy(t.txt)
  /\ tasks' = [tasks EXCEPT ![s] =
                 [t EXCEPT !.pc = "updateQuestion", !.ph = "read", !.txt = "",
                           !.updates =
                              <<[questionExplanation |-> questionExplanation]>>]]
  /\ UNCHANGED <<request, response, now, store, user, userDoc, markers, calls>>

(***************************************************************************)
(* The repository operations called on their own, outside a handler.       *)
(***************************************************************************)
UnknownId == "none"             \* the id of no question
RepoIds == {"0", "1", UnknownId}
RepoUpdates == {[contextConversation |-> "gesprek1"],
                [status |-> "answered", questionExplanation |-> Undefined]}

RepoCall(pc, questionId, updates, newQ) ==
  /\ HasFree
  /\ calls < MaxCalls
  /\ calls' = calls + 1
  /\ tasks' = [tasks EXCEPT ![FreeSlot] =
                 [NewTask("", "repo", pc, "read", questionId, <<>>, "")
                    EXCEPT !.updates = updates, !.newQ = newQ]]
  /\ UNCHANGED <<request, response, now, store, user, userDoc, markers>>

addQuestion(question) == RepoCall("addQuestion", question.id, <<>>, <<question>>)

updateQuestion(questionId, updates) ==
  RepoCall("updateQuestion", questionId, <<updates>>, <<>>)

markQuestionAsked(questionId) == RepoCall("markQuestionAsked", questionId, <<>>, <<>>)

markQuestionAnswered(questionId) ==
  RepoCall("markQuestionAnswered", questionId, <<>>, <<>>)

NextRepo ==
  \/ Tick
  \/ \E x \in QuestionTexts :
        addQuestion([id |-> DateNowId(now), status |-> "asked", question |-> x,
                     answers |-> <<>>, askedAt |-> toISOString(now)])
  \/ \E i \in RepoIds, u \in RepoUpdates : updateQuestion(i, u)
  \/ \E i \in RepoIds : markQuestionAsked(i)
  \/ \E i \in RepoIds : markQuestionAnswered(i)
  \/ \E s \in Slots : GetDocReturns(s)
  \/ \E s \in Slots : SetDocReturns(s)
  \/ \E s \in Slots : MigrationWriteBack(s)
  \/ \E s \in Slots : UpdateDocReturns(s)
  \/ \E s \in Slots : Throw(s)

SpecRepo == Init /\ [][NextRepo]_vars

(***************************************************************************)
(* Specifications: one browser tab (Spec), two tabs of the same user       *)
(* (SpecTabs).                                                             *)
(***************************************************************************)
NextOf(tabs) ==
  \/ Tick
  \/ \E c \in tabs : SignIn(c)
  \/ \E c \in tabs : handleNewQuestion(c)
  \/ \E c \in tabs, i \in QuestionIds, a \in AnswerTexts : handleAnswer(c, i, a)
  \/ \E c \in tabs, i \in QuestionIds : handleGenerateContext(c, i)
  \/ \E c \in tabs, i \in QuestionIds : handleExplain(c, i)
  \/ \E s \in Slots, x \in AiResponses : GenerateQuestionReturns(s, x)
  \/ \E s \in Slots, v \in Verdicts : ValidateAnswerReturns(s, v)
  \/ \E s \in Slots, x \in Conversations : GenerateContextReturns(s, x)
  \/ \E s \in Slots, x \in Explanations : ExplainQuestionReturns(s, x)
  \/ \E s \in Slots : GetDocReturns(s)
  \/ \E s \in Slots : SetDocReturns(s)
  \/ \E s \in Slots : MigrationWriteBack(s)
  \/ \E s \in Slots : UpdateDocReturns(s)
  \/ \E s \in Slots : Throw(s)

Next == NextOf({"tab1"})
Spec == Init /\ [][Next]_vars

NextTabs == NextOf(Clients)
SpecTabs == Init /\ [][NextTabs]_vars

(***************************************************************************)
(* QuestionCard and the New Question button: what the page lets the user   *)
(* invoke.  SpecUI is Spec with every handler invoked only from a control  *)
(* the page renders and enables.                                           *)
(***************************************************************************)
AnswersOf(q) == IF "answers" \in DOMAIN q THEN q.answers ELSE <<>>

HasCorrect(q) == \E k \in 1..Len(AnswersOf(q)) : AnswersOf(q)[k].isCorrect

Card(c, questionId) ==
  IF user[c] /\ userDoc[c] # <<>>
  THEN Find(userDoc[c][1].questions, questionId)
  ELSE <<>>

\* the answer form is rendered, its submit button enabled, the text non-empty
answerForm(c, questionId, answerText) ==
  /\ Card(c, questionId) # <<>>
  /\ Len(AnswersOf(Card(c, questionId)[1])) = 0 \/ ~HasCorrect(Card(c, questionId)[1])
  /\ validatingQuestionId[c] # questionId
  /\ Truthy(answerText)

\* "Ask in context" is rendered and enabled
contextButton(c, questionId) ==
  /\ Card(c, questionId) # <<>>
  /\ ~Has(Card(c, questionId)[1], "contextConversation")
  /\ generatingContextId[c] # questionId

\* "Explain Question" is rendered and enabled
explainButton(c, questionId) ==
  /\ Card(c, questionId) # <<>>
  /\ ~Has(Card(c, questionId)[1], "questionExplanation")
  /\ explainingQuestionId[c] # questionId

hasUnansweredQuestions(doc) ==
  \E k \in 1..Len(doc.questions) :
     /\ doc.questions[k].status = "asked"
     /\ Len(AnswersOf(doc.questions[k])) = 0

\* "New Question" is rendered and enabled
newQuestionButton(c) ==
  /\ user[c]
  /\ userDoc[c] # <<>>
  /\ ~hasUnansweredQuestions(userDoc[c][1])
  /\ ~generatingQuestion[c]

NextUI ==
  \/ Tick
  \/ SignIn("tab1")
  \/ newQuestionButton("tab1") /\ handleNewQuestion("tab1")
  \/ \E i \in QuestionIds, a \in AnswerTexts :
        answerForm("tab1", i, a) /\ handleAnswer("tab1", i, a)
  \/ \E i \in QuestionIds :
        contextButton("tab1", i) /\ handleGenerateContext("tab1", i)
  \/ \E i \in QuestionIds :
        explainButton("tab1", i) /\ handleExplain("tab1", i)
  \/ \E s \in Slots, x \in AiResponses : GenerateQuestionReturns(s, x)
  \/ \E s \in Slots, v \in Verdicts : ValidateAnswerReturns(s, v)
  \/ \E s \in Slots, x \in Conversations : GenerateContextReturns(s, x)
  \/ \E s \in Slots, x \in Explanations : ExplainQuestionReturns(s, x)
  \/ \E s \in Slots : GetDocReturns(s)
  \/ \E s \in Slots : SetDocReturns(s)
  \/ \E s \in Slots : MigrationWriteBack(s)
  \/ \E s \in Slots : UpdateDocReturns(s)
  \/ \E s \in Slots : Throw(s)

SpecUI == Init /\ [][NextUI]_vars

(***************************************************************************)
(* Vocabulary of the properties.                                           *)
(***************************************************************************)
Stored == IF store = <<>> THEN <<>> ELSE store[1].questions

StoredQ(questionId) == Find(Stored, questionId)

IsPrefix(a, b) == Len(a) <= Len(b) /\ \A k \in 1..Len(a) : a[k] = b[k]

\* In this step a handler of the given kind passes its guards for the
\* question and starts its call to the external service.
ServiceCallStarts(kind, c, questionId) ==
  \E s \in Slots :
     /\ tasks[s].kind = "idle"
     /\ tasks'[s].kind = kind
     /\ tasks'[s].client = c
     /\ tasks'[s].qid = questionId

\* In this step the task in slot s completes a write to the store.
Writes(s) ==
  /\ tasks[s].ph \in {"write", "migrate", "create"}
  /\ tasks'[s] # tasks[s]
  /\ store' # store

\* The write of slot s lands on a store that changed since the task read it:
\* the whole-field rewrite discards what was written in between.
StaleWrite(s) == Writes(s) /\ tasks[s].base # store

(***************************************************************************)
(* C1.  The stored answers of a question only grow by appending: across    *)
(* every step the earlier answers are a prefix of the later ones.          *)
(***************************************************************************)
C1_AnswersAppendOnly ==
  [][\A i \in QuestionIds :
       (StoredQ(i) # <<>> /\ StoredQ(i)' # <<>>)
         => IsPrefix(AnswersOf(StoredQ(i)[1]), AnswersOf(StoredQ(i)[1])')]_vars

(***************************************************************************)
(* C2.  Once a stored answer of a question is correct, no Submit-Answer    *)
(* for that question reaches the validation service.                       *)
(***************************************************************************)
C2_CorrectnessLock ==
  [][\A i \in QuestionIds, c \in Clients :
       (StoredQ(i) # <<>> /\ HasCorrect(StoredQ(i)[1]))
         => ~ServiceCallStarts("ans", c, i)]_vars

(***************************************************************************)
(* C3.  Original statement: once the stored status of a question is        *)
(* `answered`, it is `answered` in every later state.                      *)
(***************************************************************************)
C3_AnsweredForever ==
  [][\A i \in QuestionIds :
       (StoredQ(i) # <<>> /\ StoredQ(i)[1].status = "answered")
         => (StoredQ(i)' # <<>> => StoredQ(i)[1].status' = "answered")]_vars

(***************************************************************************)
(* C3, amended.  The stored status leaves `answered` only in a step that   *)
(* is a stale write (last-write-wins): in every other step a question      *)
(* whose stored status is `answered` keeps that status.                    *)
(***************************************************************************)
C3_AnsweredUnlessStaleWrite ==
  [][(~\E s \in Slots : StaleWrite(s))
       => \A i \in QuestionIds :
            (StoredQ(i) # <<>> /\ StoredQ(i)[1].status = "answered")
              => (StoredQ(i)' # <<>> /\ StoredQ(i)[1].status' = "answered")]_vars

\* A question answered before keeps `answered` after a second Submit-Answer
\* has been written.
C3_Witness ==
  \E i \in QuestionIds :
     /\ StoredQ(i) # <<>>
     /\ StoredQ(i)[1].status = "answered"
     /\ Len(AnswersOf(StoredQ(i)[1])) = 2

(***************************************************************************)
(* C4.  When the write of a Submit-Answer lands on a question whose stored *)
(* status is `asked` with no answers, the stored status becomes            *)
(* `answered`, whatever the verdict; when it lands on a question whose     *)
(* stored status is `answered`, the status stays `answered`.               *)
(***************************************************************************)
AnswerWriteLands(s) ==
  /\ tasks[s].kind = "ans"
  /\ tasks[s].pc = "updateQuestion"
  /\ tasks[s].ph = "write"
  /\ tasks'[s].kind = "ans"
  /\ tasks'[s].ph = "read"

C4_FirstAnswerTransition ==
  [][\A s \in Slots :
       (/\ AnswerWriteLands(s)
        /\ StoredQ(tasks[s].qid) # <<>>
        /\ \/ /\ StoredQ(tasks[s].qid)[1].status = "asked"
              /\ Len(AnswersOf(StoredQ(tasks[s].qid)[1])) = 0
           \/ StoredQ(tasks[s].qid)[1].status = "answered")
       => /\ StoredQ(tasks[s].qid)' # <<>>
          /\ StoredQ(tasks[s].qid)[1].status' = "answered"]_vars

\* The first answer of the question asked at start has just been written,
\* with the verdict `incorrect`, and the stored status is `answered`.
C4_Witness ==
  \E s \in Slots :
     /\ tasks[s].kind = "ans"
     /\ tasks[s].pc = "markQuestionAnswered"
     /\ StoredQ(tasks[s].qid) # <<>>
     /\ StoredQ(tasks[s].qid)[1].status = "answered"
     /\ Len(AnswersOf(StoredQ(tasks[s].qid)[1])) = 1
     /\ ~HasCorrect(StoredQ(tasks[s].qid)[1])

(***************************************************************************)
(* C5.  A Generate-Context call made after contextConversation has been    *)
(* stored for the question does not invoke the context service.            *)
(***************************************************************************)
C5_ContextCacheOnce ==
  [][\A i \in QuestionIds, c \in Clients :
       (StoredQ(i) # <<>> /\ Has(StoredQ(i)[1], "contextConversation"))
         => ~ServiceCallStarts("ctx", c, i)]_vars

(***************************************************************************)
(* C6.  Once stored, questionExplanation and contextConversation keep      *)
(* their stored value in every later state.                                *)
(***************************************************************************)
C6_CacheNeverOverwritten ==
  [][\A i \in QuestionIds, f \in {"questionExplanation", "contextConversation"} :
       (StoredQ(i) # <<>> /\ Has(StoredQ(i)[1], f))
         => /\ StoredQ(i)' # <<>>
            /\ f \in DOMAIN StoredQ(i)[1]'
            /\ StoredQ(i)[1][f]' = StoredQ(i)[1][f]]_vars

(***************************************************************************)
(* C7.  For every tab, question and operation kind, at most one call to    *)
(* the external service is outstanding.                                    *)
(***************************************************************************)
Outstanding(c, kind, questionId) ==
  {s \in Slots : /\ tasks[s].client = c
                 /\ tasks[s].kind = kind
                 /\ tasks[s].qid = questionId
                 /\ tasks[s].ph = "svc"}

C7_OneOutstandingCall ==
  \A c \in Clients, kind \in {"ans", "ctx", "exp"}, i \in QuestionIds :
     Cardinality(Outstanding(c, kind, i)) <= 1

\* A validation is outstanding for a question of the tab and the marker that
\* refuses a second Submit-Answer is set to it.
C7_Witness ==
  \E c \in Clients, i \in QuestionIds :
     /\ Cardinality(Outstanding(c, "ans", i)) = 1
     /\ validatingQuestionId[c] = i
     /\ answerGuard(c)

(***************************************************************************)
(* C8.  A call for a question the tab shows is refused as in flight only   *)
(* when an operation of the same kind is in progress for that question.    *)
(***************************************************************************)
InProgress(c, kind, questionId) ==
  \E s \in Slots : /\ tasks[s].client = c
                   /\ tasks[s].kind = kind
                   /\ tasks[s].qid = questionId

C8_GuardsPerQuestion ==
  \A c \in Clients, i \in QuestionIds :
     Card(c, i) # <<>>
       => /\ answerGuard(c) => InProgress(c, "ans", i)
          /\ contextGuard(c) => InProgress(c, "ctx", i)
          /\ explainGuard(c) => InProgress(c, "exp", i)

(***************************************************************************)
(* C9.  Every awaited call resolves or rejects (fairness), and every       *)
(* in-flight marker that is set returns to its idle value.                 *)
(***************************************************************************)
Progress(s) ==
  \/ \E x \in AiResponses : GenerateQuestionReturns(s, x)
  \/ \E v \in Verdicts : ValidateAnswerReturns(s, v)
  \/ \E x \in Conversations : GenerateContextReturns(s, x)
  \/ \E x \in Explanations : ExplainQuestionReturns(s, x)
  \/ GetDocReturns(s)
  \/ SetDocReturns(s)
  \/ MigrationWriteBack(s)
  \/ UpdateDocReturns(s)
  \/ Throw(s)

SpecFair == Spec /\ \A s \in Slots : WF_vars(Progress(s))

C9_MarkersCleared ==
  \A c \in Clients :
     /\ generatingQuestion[c] ~> ~generatingQuestion[c]
     /\ (validatingQuestionId[c] # Null) ~> (validatingQuestionId[c] = Null)
     /\ (generatingContextId[c] # Null) ~> (generatingContextId[c] = Null)
     /\ (explainingQuestionId[c] # Null) ~> (explainingQuestionId[c] = Null)

\* Handlers have run and every marker is back to idle.
C9_Witness ==
  /\ calls > 1
  /\ \A s \in Slots : tasks[s].kind = "idle"
  /\ \A c \in Clients :
        /\ ~generatingQuestion[c]
        /\ validatingQuestionId[c] = Null
        /\ generatingContextId[c] = Null
        /\ explainingQuestionId[c] = Null

(***************************************************************************)
(* Migration on raw documents: the store starts with any document of       *)
(* RawDocs (legacy, current and mixed entries, fields present, absent or   *)
(* empty) and a tab loads it.                                              *)
(***************************************************************************)
Optional(k, values) == {NoFields} \cup {[f \in {k} |-> v] : v \in values}

LegacyQuestions(questionId) ==
  {Merge(Merge(Merge(Merge(Merge(Merge(
     [id |-> questionId, status |-> st, question |-> "Wie ben je?"],
     a), at), ic), mi), ex), cc) :
     st \in {"asked", "answered"},
     a \in Optional("answer", {"", "ik"}),
     at \in Optional("answeredAt", {toISOString(0)}),
     ic \in Optional("isCorrect", {TRUE}),
     mi \in Optional("mistakes", {"", "fout"}),
     ex \in Optional("explanation", {"uitleg"}),
     cc \in Optional("contextConversation", {"", "gesprek1"})}

CurrentQuestions(questionId) ==
  {Merge([id |-> questionId, status |-> "answered", question |-> "Waar woon je?",
          answers |-> as], cc) :
     as \in {<<>>, <<[answer |-> "thuis", isCorrect |-> TRUE, mistakes |-> "none",
                      explanation |-> "goed", answeredAt |-> toISOString(1)]>>},
     cc \in Optional("contextConversation", {"gesprek1"})}

RawDocs ==
  {[questions |-> qs, dailyQuestions |-> <<>>, level |-> "a0"] :
     qs \in {<<>>} \cup {<<q>> : q \in LegacyQuestions("0") \cup CurrentQuestions("0")}
            \cup {<<q, r>> : q \in LegacyQuestions("0"), r \in CurrentQuestions("1")}
            \cup {<<r, q>> : q \in LegacyQuestions("0"), r \in CurrentQuestions("1")}}

InitMigrate ==
  /\ now = MaxClock - 1
  /\ store \in {<<>>} \cup {<<d>> : d \in RawDocs}
  /\ user = [c \in Clients |-> FALSE]
  /\ userDoc = [c \in Clients |-> <<>>]
  /\ generatingQuestion = [c \in Clients |-> FALSE]
  /\ explainingQuestionId = [c \in Clients |-> Null]
  /\ generatingContextId = [c \in Clients |-> Null]
  /\ validatingQuestionId = [c \in Clients |-> Null]
  /\ tasks = [s \in Slots |-> IdleTask]
  /\ calls = 0
  /\ request = <<>>
  /\ response = <<>>

NextMigrate ==
  \/ SignIn("tab1")
  \/ \E s \in Slots : GetDocReturns(s)
  \/ \E s \in Slots : SetDocReturns(s)
  \/ \E s \in Slots : MigrationWriteBack(s)
  \/ \E s \in Slots : Throw(s)

SpecMigrate == InitMigrate /\ [][NextMigrate]_vars

(***************************************************************************)
(* C10.  Migration is idempotent: a stored document without legacy entry   *)
(* is returned unchanged, and migrating a migrated document changes        *)
(* nothing.                                                                *)
(***************************************************************************)
C10_MigrationIdempotent ==
  store # <<>> =>
    /\ ~needsUpdate(store[1]) => migrateUserDocument(store[1]) = store[1]
    /\ migrateUserDocument(migrateUserDocument(store[1]))
         = migrateUserDocument(store[1])

\* A mixed document (a legacy entry with its answer fields next to a current
\* entry) has been read and migrated, its write-back is pending.
C10_Witness ==
  \E s \in Slots :
     /\ tasks[s].ph = "migrate"
     /\ store = tasks[s].base
     /\ \E k \in 1..Len(store[1].questions) :
           /\ isQuestionV1(store[1].questions[k])
           /\ Has(store[1].questions[k], "answer")
           /\ Has(store[1].questions[k], "answeredAt")
     /\ \E k \in 1..Len(store[1].questions) : ~isQuestionV1(store[1].questions[k])

(***************************************************************************)
(* C11.  A legacy entry in which `answer` and `answeredAt` are both        *)
(* present is written back with exactly one answer record: that answer and *)
(* answeredAt, isCorrect from the entry (false if absent), mistakes from   *)
(* the entry ("none" if absent), explanation from the entry ("" if         *)
(* absent).                                                                *)
(***************************************************************************)
SynthesizedAnswer(q) ==
  [answer |-> q.answer,
   answeredAt |-> q.answeredAt,
   isCorrect |-> IF "isCorrect" \in DOMAIN q THEN q.isCorrect ELSE FALSE,
   mistakes |-> IF "mistakes" \in DOMAIN q THEN q.mistakes ELSE "none",
   explanation |-> IF "explanation" \in DOMAIN q THEN q.explanation ELSE ""]

C11_LegacyAnswerCarried ==
  [][\A s \in Slots :
       (tasks[s].ph = "migrate" /\ tasks'[s].ph # "migrate" /\ store' # store)
       => \A k \in 1..Len(tasks[s].base[1].questions) :
             LET q == tasks[s].base[1].questions[k] IN
             ("answers" \notin DOMAIN q /\ "answer" \in DOMAIN q
                /\ "answeredAt" \in DOMAIN q)
             => store'[1].questions[k].answers = <<SynthesizedAnswer(q)>>]_vars

(***************************************************************************)
(* Two tabs sign in on the same raw document: two getUserDocument calls,   *)
(* one after the other or overlapping.                                     *)
(***************************************************************************)
NextLoads ==
  \/ \E c \in Clients : SignIn(c)
  \/ \E s \in Slots : GetDocReturns(s)
  \/ \E s \in Slots : SetDocReturns(s)
  \/ \E s \in Slots : MigrationWriteBack(s)
  \/ \E s \in Slots : Throw(s)

SpecLoads == InitMigrate /\ [][NextLoads]_vars

(***************************************************************************)
(* C12.  When the migration write-back of a getUserDocument call lands,    *)
(* the stored questions contain no legacy entry (each has `answers`); a    *)
(* store without legacy entry never gets one again, and a getUserDocument  *)
(* call reading such a store returns without writing.                      *)
(***************************************************************************)
NoLegacyEntry(document) ==
  \A k \in 1..Len(document.questions) : "answers" \in DOMAIN document.questions[k]

C12_MigrationSelfHealing ==
  [][/\ \A c \in Clients :
          userDoc'[c] # <<>> => store' # <<>> /\ NoLegacyEntry(store'[1])
     /\ (store # <<>> /\ NoLegacyEntry(store[1]))
          => /\ store' # <<>> /\ NoLegacyEntry(store'[1])
             /\ \A s \in Slots :
                   (tasks[s].ph = "read" /\ tasks'[s] # tasks[s])
                   => /\ store' = store
                      /\ tasks'[s].ph \notin {"migrate", "create", "write"}]_vars

\* The first tab's call found and rewrote legacy entries; the second tab's
\* call read the rewritten store and returned it without a write.
C12_Witness ==
  /\ store # <<>>
  /\ store[1] \notin RawDocs
  /\ NoLegacyEntry(store[1])
  /\ userDoc["tab1"] = store
  /\ userDoc["tab2"] = store
  /\ \A s \in Slots : tasks[s].kind = "idle"

(***************************************************************************)
(* C13.  A getUserDocument call that found no document persists and        *)
(* returns exactly the empty user document: questions = [],                *)
(* dailyQuestions = {}, level = 'a0'.                                      *)
(***************************************************************************)
C13_AbsentDocumentCreated ==
  [][\A s \in Slots :
       (tasks[s].ph = "create" /\ userDoc'[tasks[s].client] # userDoc[tasks[s].client])
       => /\ store' = <<[questions |-> <<>>, dailyQuestions |-> <<>>, level |-> "a0"]>>
          /\ userDoc'[tasks[s].client] = store']_vars

\* The first tab found no document, created it and got the empty document
\* back, while the second tab's call, which also found none, is still pending.
C13_Witness ==
  /\ store = <<[questions |-> <<>>, dailyQuestions |-> <<>>, level |-> "a0"]>>
  /\ userDoc["tab1"] = store
  /\ \E s \in Slots : tasks[s].ph = "create" /\ tasks[s].client = "tab2"

(***************************************************************************)
(* Vocabulary of the repository contracts.                                 *)
(***************************************************************************)
\* In this step the updateDoc of the operation pc, run by slot s, resolves.
WriteLands(s, pc) ==
  /\ tasks[s].pc = pc
  /\ tasks[s].ph = "write"
  /\ tasks'[s].ph \in {"done", "read"}

\* The questions the operation's getUserDocument returned to it.
ReadQuestions(s) ==
  IF tasks[s].base = <<>> THEN <<>>
  ELSE [k \in 1..Len(tasks[s].base[1].questions) |->
          IF "answers" \in DOMAIN tasks[s].base[1].questions[k]
          THEN tasks[s].base[1].questions[k]
          ELSE migrateQuestion(tasks[s].base[1].questions[k])]

(***************************************************************************)
(* C14.  addQuestion appends: when its write lands, the stored questions   *)
(* are the questions it read followed by the new question; on a document   *)
(* whose stored questions are still the ones it read, every earlier        *)
(* question is kept in place and the new one is last.                      *)
(***************************************************************************)
C14_AddQuestionAppends ==
  [][\A s \in Slots :
       WriteLands(s, "addQuestion")
       => /\ Stored' = ReadQuestions(s) \o tasks[s].newQ
          /\ Stored = ReadQuestions(s) => Stored' = Stored \o tasks[s].newQ]_vars

\* addQuestion has returned on the two-question document: the new question
\* is the third and last.
C14_Witness ==
  \E s \in Slots :
     /\ tasks[s].ph = "done"
     /\ tasks[s].pc = "addQuestion"
     /\ Len(Stored) = 3
     /\ Stored[1].id = "0"
     /\ Stored[2].id = "1"
     /\ Stored[3].id = tasks[s].qid

(***************************************************************************)
(* C15.  While no user document exists, no step of addQuestion,            *)
(* updateQuestion, markQuestionAsked or markQuestionAnswered creates one   *)
(* or writes anything: the store stays without a document.                 *)
(***************************************************************************)
C15_AbsentDocumentNoOp ==
  [][\A s \in Slots :
       (/\ tasks[s].pc \in {"addQuestion", "updateQuestion",
                            "markQuestionAsked", "markQuestionAnswered"}
        /\ tasks'[s] # tasks[s]
        /\ store = <<>>)
       => store' = <<>>]_vars

(***************************************************************************)
(* C16.  updateQuestion with a questionId that matches no question writes  *)
(* back the questions it read: a store that was not written since the read *)
(* keeps its `questions` sequence as it was.                               *)
(***************************************************************************)
C16_UnknownIdNoOp ==
  [][\A s \in Slots :
       (/\ WriteLands(s, "updateQuestion")
        /\ \A k \in 1..Len(ReadQuestions(s)) : ReadQuestions(s)[k].id # tasks[s].qid)
       => /\ Stored' = ReadQuestions(s)
          /\ Stored = ReadQuestions(s) => Stored' = Stored]_vars

\* updateQuestion has returned for an id that no stored question has.
C16_Witness ==
  \E s \in Slots :
     /\ tasks[s].ph = "done"
     /\ tasks[s].pc = "updateQuestion"
     /\ tasks[s].qid = UnknownId
     /\ Len(Stored) = 2
     /\ \A k \in 1..Len(Stored) : Stored[k].id # UnknownId

(***************************************************************************)
(* C17.  No write a repository operation submits to the store carries an   *)
(* undefined value, at the top level or inside a question or an answer     *)
(* record: what updateUserDocument passes to updateDoc, and what the       *)
(* migration write-back passes, is free of undefined at every depth.       *)
(***************************************************************************)
C17_NoUndefinedSubmitted ==
  \A s \in Slots :
     /\ tasks[s].ph = "write" => storeAccepts(removeUndefined(tasks[s].upd[1]))
     /\ tasks[s].ph = "migrate" =>
          storeAccepts([questions |-> migrateUserDocument(tasks[s].base[1]).questions])

(***************************************************************************)
(* C18.  The write of updateQuestion is last-write-wins on the whole       *)
(* `questions` sequence: when it lands, every question other than its own  *)
(* is stored as the call read it, so what another call wrote between the   *)
(* read and the write is discarded; two calls for different questions that *)
(* both read before either writes end with only one update stored.         *)
(***************************************************************************)
C18_LastWriteWins ==
  [][\A s \in Slots :
       WriteLands(s, "updateQuestion")
       => /\ Len(Stored') = Len(ReadQuestions(s))
          /\ \A k \in 1..Len(ReadQuestions(s)) :
                ReadQuestions(s)[k].id # tasks[s].qid
                => Stored'[k] = ReadQuestions(s)[k]]_vars

\* Generate Context on one question and Explain Question on another have
\* both completed their updateQuestion; the explanation is stored, the
\* conversation is not.
C18_Witness ==
  \E s, r \in Slots :
     /\ tasks[s].kind = "ctx"
     /\ tasks[s].pc = "getUserDocument"
     /\ tasks[r].kind = "exp"
     /\ tasks[r].pc = "getUserDocument"
     /\ tasks[s].qid # tasks[r].qid
     /\ StoredQ(tasks[s].qid) # <<>>
     /\ ~Has(StoredQ(tasks[s].qid)[1], "contextConversation")
     /\ StoredQ(tasks[r].qid) # <<>>
     /\ Has(StoredQ(tasks[r].qid)[1], "questionExplanation")

(***************************************************************************)
(* C19.  In every reachable state, for every date of the daily ledger,     *)
(* askedQuestionIds and answeredQuestionIds hold no id twice, whether the  *)
(* same id was marked twice in sequence or by overlapping calls.           *)
(***************************************************************************)
Ledger == IF store = <<>> THEN <<>> ELSE store[1].dailyQuestions

NoDuplicate(list) ==
  \A i, j \in 1..Len(list) : i # j => list[i] # list[j]

C19_LedgerNoDuplicates ==
  \A d \in DOMAIN Ledger :
     /\ NoDuplicate(Ledger[d].askedQuestionIds)
     /\ NoDuplicate(Ledger[d].answeredQuestionIds)

\* Two markQuestionAsked calls for the same id have returned and the id is
\* in that day's list once.
C19_Witness ==
  /\ \A s \in Slots : tasks[s].ph = "done" /\ tasks[s].pc = "markQuestionAsked"
  /\ \A s, r \in Slots : tasks[s].qid = tasks[r].qid
  /\ \E d \in DOMAIN Ledger : Ledger[d].askedQuestionIds = <<tasks[1].qid>>

(***************************************************************************)
(* C20.  The daily ledger is purely additive: across every step, each date *)
(* key stays and each id stays in the list of its date.                    *)
(***************************************************************************)
LedgerGrows ==
  \A d \in DOMAIN Ledger :
     /\ d \in DOMAIN Ledger'
     /\ Range(Ledger[d].askedQuestionIds) \subseteq Range(Ledger'[d].askedQuestionIds)
     /\ Range(Ledger[d].answeredQuestionIds)
          \subseteq Range(Ledger'[d].answeredQuestionIds)

C20_LedgerAdditive == [][LedgerGrows]_vars

\* The ledger as the operation in slot s read it.
ReadLedger(s) ==
  IF tasks[s].base = <<>> THEN <<>> ELSE tasks[s].base[1].dailyQuestions

\* In this step slot s completes a write computed from a ledger that has
\* been rewritten since the operation read it.
StaleLedgerWrite(s) ==
  /\ tasks[s].ph \in {"write", "create"}
  /\ tasks'[s] # tasks[s]
  /\ ReadLedger(s) # Ledger

\* C20, amended.  The ledger is additive under every write of an operation
\* that read the ledger as it stands when the write lands; only a write
\* computed from an older read (an overlapping markQuestionAsked or
\* markQuestionAnswered, or a second creation of the document) can drop ids
\* or date keys.
C20_LedgerAdditiveUnlessStale ==
  [][(\E s \in Slots : StaleLedgerWrite(s)) \/ LedgerGrows]_vars

\* Marks made on two different days are both in the ledger.
C20_Witness ==
  \E d, e \in DOMAIN Ledger :
     /\ d # e
     /\ Len(Ledger[d].askedQuestionIds) + Len(Ledger[d].answeredQuestionIds) > 0
     /\ Len(Ledger[e].askedQuestionIds) + Len(Ledger[e].answeredQuestionIds) > 0

(***************************************************************************)
(* Generate: addQuestion, then markQuestionAsked (App.tsx 82-96).          *)
(***************************************************************************)
AskedIds ==
  UNION {Range(Ledger[d].askedQuestionIds) : d \in DOMAIN Ledger}

AnsweredIds ==
  UNION {Range(Ledger[d].answeredQuestionIds) : d \in DOMAIN Ledger}

\* When Generate's addQuestion write lands, the stored questions are the ones
\* it read followed by exactly one new question (asked, no answers, askedAt
\* set), and the handler goes on to markQuestionAsked.
GenerateAppendsOne ==
  \A s \in Slots :
     tasks[s].kind = "gen" /\ WriteLands(s, "addQuestion") =>
        /\ Len(Stored') = Len(ReadQuestions(s)) + 1
        /\ IsPrefix(ReadQuestions(s), Stored')
        /\ LET q == Stored'[Len(Stored')] IN
           /\ q.id = tasks[s].qid
           /\ q.status = "asked"
           /\ q.answers = <<>>
           /\ Has(q, "askedAt")
        /\ tasks'[s].pc = "markQuestionAsked"

\* When Generate's markQuestionAsked write lands, the id is in the asked list
\* of the day of the write.
GenerateRecordsAsked ==
  \A s \in Slots :
     tasks[s].kind = "gen" /\ WriteLands(s, "markQuestionAsked") =>
        /\ getTodayDate(now) \in DOMAIN Ledger'
        /\ tasks[s].qid \in Range(Ledger'[getTodayDate(now)].askedQuestionIds)

\* Until its addQuestion write has landed, Generate has not recorded its id.
GenerateLedgerLast ==
  \A s \in Slots :
     tasks[s].kind = "gen" /\ tasks[s].pc \in {"generateQuestion", "addQuestion"}
        => tasks[s].qid \notin AskedIds

(***************************************************************************)
(* C21.  A successful Generate appends exactly one new question (asked, no *)
(* answers, askedAt set) and then records its id in the day's              *)
(* askedQuestionIds; the question is persisted before the ledger entry, so *)
(* at no time is an id in the asked ledger without its question being in   *)
(* `questions`.                                                            *)
(***************************************************************************)
C21_QuestionBeforeLedger ==
  [][/\ GenerateAppendsOne
     /\ GenerateRecordsAsked
     /\ GenerateLedgerLast
     /\ AskedIds' \subseteq Ids(Stored')]_vars

\* C21, as the code has it: the order of the two writes holds, and a write
\* that is not stale never removes a question; the id can be in the ledger
\* without its question only after a stale whole-field rewrite of
\* `questions` (C18) has discarded the question.
C21_QuestionBeforeLedgerUnlessStale ==
  [][/\ GenerateAppendsOne
     /\ GenerateRecordsAsked
     /\ GenerateLedgerLast
     /\ (\A s \in Slots : ~StaleWrite(s)) => Ids(Stored) \subseteq Ids(Stored')
     /\ (\A s \in Slots : ~StaleWrite(s)) /\ AskedIds \subseteq Ids(Stored)
           /\ (\A s \in Slots : WriteLands(s, "markQuestionAsked")
                                   => tasks[s].qid \in Ids(Stored))
        => AskedIds' \subseteq Ids(Stored')]_vars

\* A Generate has run to its end: its question is stored as asked with no
\* answers and its id is in the asked ledger.
C21_Witness ==
  /\ \A s \in Slots : tasks[s].kind = "idle"
  /\ \E i \in AskedIds :
        /\ StoredQ(i) # <<>>
        /\ StoredQ(i)[1].status = "asked"
        /\ StoredQ(i)[1].answers = <<>>
        /\ Len(Stored) = 3

(***************************************************************************)
(* C22.  When the text-generation model returns no text or empty text for  *)
(* Generate, the operation fails: the endpoint answers 500, the service    *)
(* module throws, and the handler ends there, with no question appended    *)
(* and no id added to the ledger.                                          *)
(***************************************************************************)
C22_EmptyTextFails ==
  [][\A s \in Slots, ai \in AiResponses :
        ai # <<>> /\ ~Truthy(ai[1]) /\ GenerateQuestionReturns(s, ai) =>
           /\ response'[1].status = 500
           /\ tasks'[s] = IdleTask
           /\ ~generatingQuestion'[tasks[s].client]
           /\ store' = store]_vars

\* The model was invoked for a Generate, the endpoint answered 500 and the
\* handler has ended.
C22_Witness ==
  /\ response # <<>>
  /\ response[1].status = 500
  /\ response[1].prompt # <<>>
  /\ \A s \in Slots : tasks[s].kind = "idle"
  /\ \A c \in Clients : ~generatingQuestion[c]

(***************************************************************************)
(* C23.  A controller operation that fails at any step leaves the stored   *)
(* document as it was before the operation started: when a Generate ends   *)
(* in its catch before the final refresh, its question is not stored, and  *)
(* when a Submit-Answer ends in its catch at markQuestionAnswered, its     *)
(* answer is not stored.                                                   *)
(***************************************************************************)
FailsAt(s, kind, pcs) ==
  /\ tasks[s].kind = kind
  /\ tasks[s].pc \in pcs
  /\ tasks'[s] = IdleTask

C23_FailureLeavesStoreUntouched ==
  [][\A s \in Slots :
        /\ FailsAt(s, "gen", {"generateQuestion", "addQuestion", "markQuestionAsked"})
              => tasks[s].qid \notin Ids(Stored')
        /\ FailsAt(s, "ans", {"validateAnswer", "updateQuestion", "markQuestionAnswered"})
              /\ tasks[s].first /\ StoredQ(tasks[s].qid) # <<>>
              => StoredQ(tasks[s].qid)[1].answers = <<>>]_vars

(***************************************************************************)
(* End to end: one tab on a user whose document is absent or empty; the    *)
(* user acts through the buttons and forms the page shows, and every       *)
(* awaited store call resolves.                                            *)
(***************************************************************************)
InitE2E ==
  /\ now = 0
  /\ store \in {<<>>, <<initialDoc>>}
  /\ user = [c \in Clients |-> FALSE]
  /\ userDoc = [c \in Clients |-> <<>>]
  /\ generatingQuestion = [c \in Clients |-> FALSE]
  /\ explainingQuestionId = [c \in Clients |-> Null]
  /\ generatingContextId = [c \in Clients |-> Null]
  /\ validatingQuestionId = [c \in Clients |-> Null]
  /\ tasks = [s \in Slots |-> IdleTask]
  /\ calls = 0
  /\ request = <<>>
  /\ response = <<>>

NextE2E ==
  \/ Tick
  \/ SignIn("tab1")
  \/ newQuestionButton("tab1") /\ handleNewQuestion("tab1")
  \/ \E i \in QuestionIds, a \in AnswerTexts :
        answerForm("tab1", i, a) /\ handleAnswer("tab1", i, a)
  \/ \E s \in Slots, x \in AiResponses : GenerateQuestionReturns(s, x)
  \/ \E s \in Slots, v \in Verdicts : ValidateAnswerReturns(s, v)
  \/ \E s \in Slots : GetDocReturns(s)
  \/ \E s \in Slots : SetDocReturns(s)
  \/ \E s \in Slots : UpdateDocReturns(s)

SpecE2E == InitE2E /\ [][NextE2E]_vars

\* getTodayDate() at the instant of an ISO timestamp
DateOf(iso) == getTodayDate(getTime(iso))

\* Both operations have run to their end on the date of the question's
\* askedAt: the store holds one question with one answer, a correct one.
OneCorrectAnswerToday ==
  /\ \A s \in Slots : tasks[s].kind = "idle"
  /\ Len(Stored) = 1
  /\ Len(Stored[1].answers) = 1
  /\ Stored[1].answers[1].isCorrect
  /\ DateOf(Stored[1].askedAt) = getTodayDate(now)

(***************************************************************************)
(* C24.  From an empty document, a Generate and then one Submit-Answer     *)
(* validated as correct, both on the same date, leave one stored question  *)
(* with status `answered` and one answer, a correct one, and the id is in  *)
(* both askedQuestionIds and answeredQuestionIds of today's record.        *)
(***************************************************************************)
C24_EndToEnd ==
  OneCorrectAnswerToday =>
     /\ Stored[1].status = "answered"
     /\ getTodayDate(now) \in DOMAIN Ledger
     /\ Stored[1].id \in Range(Ledger[getTodayDate(now)].askedQuestionIds)
     /\ Stored[1].id \in Range(Ledger[getTodayDate(now)].answeredQuestionIds)

\* The scenario has run, on a user whose document did not exist.
C24_Witness ==
  /\ OneCorrectAnswerToday
  /\ Stored[1].status = "answered"
  /\ Stored[1].id \in AskedIds \cap AnsweredIds
  /\ userDoc["tab1"] = store

(***************************************************************************)
(* C25.  Submit-Answer goes on to markQuestionAnswered exactly when the    *)
(* submitted answer is the first answer of the question, and only once the *)
(* answer and the status are stored; a Submit-Answer that is not the first *)
(* answer of the question leaves dailyQuestions as it is.                  *)
(***************************************************************************)
C25_AnsweredLedgerOnFirstAnswer ==
  [][\A s \in Slots : tasks[s].kind = "ans" =>
        \* the decision, taken when validateAnswer returns
        /\ tasks[s].ph = "svc" /\ tasks'[s].pc = "updateQuestion" =>
              (tasks'[s].first <=>
                 /\ StoredQ(tasks[s].qid) # <<>>
                 /\ Len(AnswersOf(StoredQ(tasks[s].qid)[1])) = 0)
        \* the order of the writes
        /\ WriteLands(s, "updateQuestion") =>
              tasks'[s].pc = IF tasks[s].first THEN "markQuestionAnswered"
                             ELSE "getUserDocument"
        /\ tasks[s].pc # "markQuestionAnswered" /\ ~tasks[s].first =>
              tasks'[s].pc # "markQuestionAnswered"]_vars

\* The question with this id in the tab's userDoc has the field populated.
Populated(c, questionId, f) ==
  /\ Card(c, questionId) # <<>>
  /\ Has(Card(c, questionId)[1], f)

(***************************************************************************)
(* C26.  handleExplain called for a question whose questionExplanation is  *)
(* populated in the handler's userDoc returns at its cache check: no call  *)
(* to the explanation service starts and so nothing is written; the same   *)
(* holds for handleGenerateContext and contextConversation.                *)
(***************************************************************************)
C26_PopulatedIsNoOp ==
  [][\A c \in Clients, i \in QuestionIds :
        /\ Populated(c, i, "questionExplanation") => ~ServiceCallStarts("exp", c, i)
        /\ Populated(c, i, "contextConversation") => ~ServiceCallStarts("ctx", c, i)]_vars

\* A tab holds a question with its explanation, and nothing but the cache
\* check stands between a further handleExplain call and the service.
C26_Witness ==
  \E c \in Clients, i \in QuestionIds :
     /\ Populated(c, i, "questionExplanation")
     /\ ~explainGuard(c)
     /\ HasFree
     /\ calls < MaxCalls

(***************************************************************************)
(* C27.  Migration preserves the question sequence: as many entries, in    *)
(* the same order, `id`, `status` and `question` unchanged; a legacy entry *)
(* lacking `answer` or `answeredAt` gets answers = []; each of             *)
(* questionExplanation, contextConversation and askedAt is in the migrated *)
(* entry, with its original value, exactly when it is in the legacy entry. *)
(***************************************************************************)
C27_MigrationPreservesSequence ==
  [][\A s \in Slots :
       (tasks[s].ph = "migrate" /\ tasks'[s].ph # "migrate" /\ store' # store)
       => LET raw == tasks[s].base[1].questions
              migrated == store'[1].questions
          IN
          /\ Len(migrated) = Len(raw)
          /\ \A k \in 1..Len(raw) :
                /\ migrated[k].id = raw[k].id
                /\ migrated[k].status = raw[k].status
                /\ migrated[k].question = raw[k].question
                /\ isQuestionV1(raw[k]) =>
                      /\ ("answer" \notin DOMAIN raw[k] \/ "answeredAt" \notin DOMAIN raw[k])
                            => migrated[k].answers = <<>>
                      /\ \A f \in {"questionExplanation", "contextConversation", "askedAt"} :
                            /\ f \in DOMAIN migrated[k] <=> f \in DOMAIN raw[k]
                            /\ f \in DOMAIN raw[k] => migrated[k][f] = raw[k][f]]_vars

\* The request is a well-formed POST to generate-question and was answered.
GenerateAnswered ==
  /\ response # <<>>
  /\ request[1].url = "generate-question"
  /\ request[1].method = "POST"
  /\ request[1].body # <<>>
  /\ "answeredQuestions" \in DOMAIN request[1].body[1]
  /\ Has(request[1].body[1], "currentLevel")

\* The timestamp of the question's latest answer, 0 when it has none.
LatestAnswerTime(q) ==
  IF Len(q.answers) > 0 /\ Has(q.answers[Len(q.answers)], "answeredAt")
  THEN getTime(q.answers[Len(q.answers)].answeredAt)
  ELSE 0

(***************************************************************************)
(* C28.  Generate's context is built from every question with status      *)
(* `answered`, in ascending order of the timestamp of its latest answer; a *)
(* question without timestamped answer, one with an empty `answers`        *)
(* included, comes first with timestamp 0 and does not make the generation *)
(* fail: the model is invoked with a history holding every answered        *)
(* question of the request, in that order.                                 *)
(***************************************************************************)
C28_ContextFromEveryAnswered ==
  GenerateAnswered =>
     LET answered == SelectSeq(request[1].body[1].answeredQuestions, IsAnswered)
         TimeOf(text) ==
           LatestAnswerTime(CHOOSE q \in Range(answered) : q.question = text)
     IN
     /\ response[1].prompt # <<>>
     /\ LET history == response[1].prompt[1].history IN
        /\ Len(history) = Len(answered)
        /\ {history[i].Q : i \in 1..Len(history)}
             = {answered[i].question : i \in 1..Len(answered)}
        /\ \A i, j \in 1..Len(history) :
              i < j => TimeOf(history[i].Q) <= TimeOf(history[j].Q)

\* The fields each endpoint requires of the request body.
Required(url) ==
  CASE url = "generate-question" -> {"answeredQuestions", "currentLevel"}
    [] url = "validate-answer" -> {"question", "answer"}
    [] OTHER -> {"question", "level"}

\* The request lacks a required field: it has no body, or its body lacks the
\* key.
MissingField(req) ==
  \/ req.body = <<>>
  \/ \E k \in Required(req.url) : k \notin DOMAIN req.body[1]

\* The generation call failed: it rejected, or returned no text, or text
\* that is not the JSON asked for.
GenerationFailed(req) ==
  \/ req.ai = <<>>
  \/ ~Truthy(req.ai[1])
  \/ req.url = "validate-answer" /\ JSONparse(req.ai[1]) = <<>>

\* The keys of each endpoint's result.
ResultKeys(url) ==
  CASE url = "generate-question" -> {"question"}
    [] url = "validate-answer" -> {"correct", "mistakes", "explanation"}
    [] url = "generate-context" -> {"conversation"}
    [] OTHER -> {"explanation"}

(***************************************************************************)
(* C30.  Each endpoint answers 405 to a request whose method is not POST   *)
(* and 400 to a request with a missing required field, in both cases       *)
(* without invoking the model; every failure of the generation call is     *)
(* answered 500, and a 200 response carries the whole result.              *)
(***************************************************************************)
C30_EndpointRejections ==
  response # <<>> =>
     LET req == request[1]
         res == response[1]
     IN
     /\ req.method # "POST" => res.status = 405 /\ res.prompt = <<>>
     /\ req.method = "POST" /\ MissingField(req) =>
           res.status = 400 /\ res.prompt = <<>>
     /\ res.prompt # <<>> /\ GenerationFailed(req) => res.status = 500
     /\ res.status = 200 => DOMAIN res.body = ResultKeys(req.url)

(***************************************************************************)
(* The question list of the App component (App.tsx 279-343): the questions *)
(* of userDoc newest first, each with the dividers rendered above its      *)
(* card.  Time is counted in clock ticks of 24 / TicksPerDay hours.        *)
(***************************************************************************)
GapHours == 48
HoursPerTick == 24 \div TicksPerDay

\* question.askedAt ? new Date(question.askedAt) : null, as <<getTime()>>
DateOrNull(question) ==
  IF Has(question, "askedAt") THEN <<getTime(question.askedAt)>> ELSE <<>>

\* userDoc.questions.slice().reverse()
reversed(questions) ==
  [i \in 1..Len(questions) |-> questions[Len(questions) + 1 - i]]

\* The callback of .map((question, index, reversedQuestions) => ...), with
\* index counted from 1
QuestionItem(reversedQuestions, index, nowTime) ==
  LET question == reversedQuestions[index]
      questionDate == DateOrNull(question)
      prevQuestionDate == IF index > 1
                          THEN DateOrNull(reversedQuestions[index - 1])
                          ELSE <<>>
      hoursSinceLatest == IF index = 1 /\ questionDate # <<>>
                          THEN <<(nowTime - questionDate[1]) * HoursPerTick>>
                          ELSE <<>>
      hoursBetween == IF questionDate # <<>> /\ prevQuestionDate # <<>>
                      THEN <<(questionDate[1] - prevQuestionDate[1]) * HoursPerTick>>
                      ELSE <<>>
  IN  [id |-> question.id,
       sinceLatestDivider |-> hoursSinceLatest # <<>> /\ hoursSinceLatest[1] > GapHours,
       betweenDivider |-> hoursBetween # <<>> /\ hoursBetween[1] > GapHours]

QuestionList(doc, nowTime) ==
  [index \in 1..Len(doc.questions) |->
     QuestionItem(reversed(doc.questions), index, nowTime)]

\* Documents shown: up to three questions in creation order, the first one
\* possibly a legacy entry without askedAt.
AskedTimes == {0, 1, 7, 8, 14}
QuestionAskedAt(t) ==
  [id |-> DateNowId(t), status |-> "asked", question |-> "Hoe gaat het?",
   answers |-> <<>>, askedAt |-> toISOString(t)]
QuestionNoAskedAt ==
  [id |-> "oud", status |-> "asked", question |-> "Wie ben je?", answers |-> <<>>]

ShownLists ==
  LET increasing == {<<>>} \cup {<<QuestionAskedAt(a)>> : a \in AskedTimes}
        \cup {<<QuestionAskedAt(l[1]), QuestionAskedAt(l[2])>> :
                l \in {m \in AskedTimes \X AskedTimes : m[1] < m[2]}}
        \cup {<<QuestionAskedAt(l[1]), QuestionAskedAt(l[2]), QuestionAskedAt(l[3])>> :
                l \in {m \in AskedTimes \X AskedTimes \X AskedTimes :
                         m[1] < m[2] /\ m[2] < m[3]}}
  IN  increasing \cup {<<QuestionNoAskedAt>> \o l : l \in increasing}

InitView ==
  /\ userDoc \in {[c \in Clients |-> IF c = "tab1"
                                      THEN <<[questions |-> l, dailyQuestions |-> <<>>,
                                              level |-> "a0"]>>
                                      ELSE <<>>] : l \in ShownLists}
  /\ store = userDoc["tab1"]
  /\ now \in {t \in AskedTimes :
                \A k \in 1..Len(store[1].questions) :
                   DateOrNull(store[1].questions[k]) # <<>>
                      => DateOrNull(store[1].questions[k])[1] <= t}
  /\ user = [c \in Clients |-> c = "tab1"]
  /\ generatingQuestion = [c \in Clients |-> FALSE]
  /\ explainingQuestionId = [c \in Clients |-> Null]
  /\ generatingContextId = [c \in Clients |-> Null]
  /\ validatingQuestionId = [c \in Clients |-> Null]
  /\ tasks = [s \in Slots |-> IdleTask]
  /\ calls = 0
  /\ request = <<>>
  /\ response = <<>>

\* The component renders: `response` is the list it produced.
renderQuestionList(c) ==
  /\ user[c] /\ userDoc[c] # <<>>
  /\ response = <<>>
  /\ response' = <<QuestionList(userDoc[c][1], now)>>
  /\ UNCHANGED <<request, now, store, user, userDoc, markers, tasks, calls>>

NextView == renderQuestionList("tab1")

SpecView == InitView /\ [][NextView]_vars

\* Hours between the askedAt of two questions, whichever is the later.
HoursApart(q, r) ==
  LET d == (DateOrNull(q)[1] - DateOrNull(r)[1]) * HoursPerTick IN
  IF d < 0 THEN 0 - d ELSE d

(***************************************************************************)
(* C29.  The questions are displayed newest first (the reverse of their    *)
(* creation order); a gap is reported between two questions adjacent in    *)
(* the display exactly when their asked timestamps are more than 48 hours  *)
(* apart, and above the newest question exactly when more than 48 hours    *)
(* separate its askedAt from the current instant.                          *)
(***************************************************************************)
C29_NewestFirstWithGaps ==
  response # <<>> =>
     LET shown == response[1]
         questions == userDoc["tab1"][1].questions
         n == Len(questions)
     IN
     /\ Len(shown) = n
     /\ \A i \in 1..n : shown[i].id = questions[n + 1 - i].id
     /\ \A i \in 2..n :
           DateOrNull(questions[n + 1 - i]) # <<>> /\ DateOrNull(questions[n + 2 - i]) # <<>>
           => (shown[i].betweenDivider
                 <=> HoursApart(questions[n + 1 - i], questions[n + 2 - i]) > GapHours)
     /\ n > 0 /\ DateOrNull(questions[n]) # <<>> =>
           (shown[1].sinceLatestDivider
              <=> (now - DateOrNull(questions[n])[1]) * HoursPerTick > GapHours)

(***************************************************************************)
(* C31.  In one tab a Submit-Answer and a Generate-Context (or Explain) on *)
(* the same question overlap, their markers being independent; whatever    *)
(* the interleaving, the stored question ends with both changes: the write *)
(* of the one never takes away what the other has stored (the answers and  *)
(* the status `answered`, or the generated text).                          *)
(***************************************************************************)
C31_OverlappingUpdatesBothKept ==
  [][\A s \in Slots :
        WriteLands(s, "updateQuestion") /\ StoredQ(tasks[s].qid) # <<>> =>
           LET before == StoredQ(tasks[s].qid)[1]
               after == StoredQ(tasks[s].qid)'[1]
           IN
           /\ tasks[s].kind \in {"ctx", "exp"} =>
                 /\ AnswersOf(after) = AnswersOf(before)
                 /\ after.status = before.status
           /\ tasks[s].kind = "ans" =>
                 \A f \in {"contextConversation", "questionExplanation"} :
                    Has(before, f) => Has(after, f) /\ after[f] = before[f]]_vars


(***************************************************************************)
(* C32.  getUserDocument never removes data written by another operation:  *)
(* when the write-back of a migration lands, the stored `questions` become *)
(* the migration of what is stored at that moment, so a question added or  *)
(* an update applied since the read of the legacy entries is still there.  *)
(***************************************************************************)
C32_WriteBackKeepsConcurrentWrites ==
  [][\A s \in Slots :
        MigrationWriteBack(s) =>
           store'[1].questions = migrateUserDocument(store[1]).questions]_vars


\* C31, restated for writes computed from the document as it stands: such a
\* write of Submit-Answer stores an answer and the status `answered` and
\* keeps the generated texts, such a write of Generate-Context or Explain
\* stores its text and keeps the answers and the status; only a write
\* computed from a read older than the other's write takes its change away.
C31_BothKeptUnlessStale ==
  [][\A s \in Slots :
        /\ WriteLands(s, "updateQuestion")
        /\ tasks[s].kind \in {"ans", "ctx", "exp"}
        /\ tasks[s].base = store
        /\ StoredQ(tasks[s].qid) # <<>>
        =>
           LET before == StoredQ(tasks[s].qid)[1]
               after == StoredQ(tasks[s].qid)'[1]
           IN
           /\ tasks[s].kind = "ctx" =>
                 /\ Has(after, "contextConversation")
                 /\ AnswersOf(after) = AnswersOf(before)
                 /\ after.status = before.status
           /\ tasks[s].kind = "exp" =>
                 /\ Has(after, "questionExplanation")
                 /\ AnswersOf(after) = AnswersOf(before)
                 /\ after.status = before.status
           /\ tasks[s].kind = "ans" =>
                 /\ after.status = "answered"
                 /\ AnswersOf(after) # <<>>
                 /\ \A f \in {"contextConversation", "questionExplanation"} :
                       Has(before, f) => Has(after, f) /\ after[f] = before[f]]_vars

\* A Generate-Context or Explain is about to write, from the document as it
\* stands, over an answer that a Submit-Answer of the same tab stored while
\* it ran: the tab's copy of the question has no answer yet.
C31_Witness ==
  \E s \in Slots :
     /\ tasks[s].kind \in {"ctx", "exp"}
     /\ tasks[s].pc = "updateQuestion"
     /\ tasks[s].ph = "write"
     /\ tasks[s].base = store
     /\ StoredQ(tasks[s].qid) # <<>>
     /\ AnswersOf(StoredQ(tasks[s].qid)[1]) # <<>>
     /\ userDoc[tasks[s].client] # <<>>
     /\ \E i \in 1..Len(userDoc[tasks[s].client][1].questions) :
           /\ userDoc[tasks[s].client][1].questions[i].id = tasks[s].qid
           /\ AnswersOf(userDoc[tasks[s].client][1].questions[i]) = <<>>


(***************************************************************************)
(* C33.  Repository writes touch only the field they name.                 *)
(***************************************************************************)
\* The write of addQuestion / updateQuestion leaves the stored ledger and
\* level as they are; the write of markQuestionAsked / markQuestionAnswered
\* leaves the stored questions and level as they are.
NamedFieldOnly(s) ==
  /\ WriteLands(s, "addQuestion") \/ WriteLands(s, "updateQuestion") =>
        /\ store'[1].dailyQuestions = store[1].dailyQuestions
        /\ store'[1].level = store[1].level
  /\ WriteLands(s, "markQuestionAsked") \/ WriteLands(s, "markQuestionAnswered") =>
        /\ store'[1].questions = store[1].questions
        /\ store'[1].level = store[1].level

\* The write of updateQuestion leaves every entry of qs whose id is not
\* questionId as it is, and adds or removes none.
OnlyQuestionIdChanges(s, qs) ==
  WriteLands(s, "updateQuestion") =>
     /\ Len(Stored') = Len(qs)
     /\ \A i \in 1..Len(qs) : qs[i].id # tasks[s].qid => Stored'[i] = qs[i]

\* C33 as stated: the named field only, and within the stored questions
\* updateQuestion changes only the entries whose id is questionId.
C33_WritesTouchNamedFieldOnly ==
  [][\A s \in Slots : NamedFieldOnly(s) /\ OnlyQuestionIdChanges(s, Stored)]_vars

\* C33 with the questions taken as updateQuestion read them: the named field
\* only, so that a write of `questions` and a write of `dailyQuestions`
\* never discard each other's change, and within the questions it read
\* updateQuestion changes only the entries whose id is questionId.
C33_NamedFieldOnlyOfItsRead ==
  [][\A s \in Slots :
        NamedFieldOnly(s) /\ OnlyQuestionIdChanges(s, ReadQuestions(s))]_vars

\* An updateQuestion is about to write on a current-shaped document whose
\* ledger a markQuestionAsked / markQuestionAnswered changed since it read.
C33_Witness ==
  \E s \in Slots :
     /\ tasks[s].pc = "updateQuestion"
     /\ tasks[s].ph = "write"
     /\ store # <<>>
     /\ ~needsUpdate(store[1])
     /\ tasks[s].base # <<>>
     /\ tasks[s].base[1].dailyQuestions # store[1].dailyQuestions
     /\ tasks[s].base[1].questions = store[1].questions


(***************************************************************************)
(* C34.  markAsked on date D changes only D's `askedQuestionIds`: compared *)
(* with the ledger the call read (the stored ledger, when the call runs on *)
(* its own), the ledger it stores has the same records for every other     *)
(* date and the same `answeredQuestionIds` for D; symmetrically            *)
(* markAnswered changes only D's `answeredQuestionIds`.                    *)
(***************************************************************************)
Days == {getTodayDate(t) : t \in 0..MaxClock}

\* new differs from old in the list `field` of date D at most
OnlyDayFieldChanges(old, new, D, field) ==
  /\ DOMAIN new = DOMAIN old \cup {D}
  /\ \A d \in DOMAIN old \ {D} : new[d] = old[d]
  /\ \A f \in DOMAIN new[D] \ {field} :
        new[D][f] = IF D \in DOMAIN old THEN old[D][f] ELSE EmptyDay[f]

C34_MarkChangesOneList ==
  [][\A s \in Slots :
        /\ WriteLands(s, "markQuestionAsked") =>
              \E D \in Days :
                 OnlyDayFieldChanges(ReadLedger(s), Ledger', D, "askedQuestionIds")
        /\ WriteLands(s, "markQuestionAnswered") =>
              \E D \in Days :
                 OnlyDayFieldChanges(ReadLedger(s), Ledger', D, "answeredQuestionIds")]_vars

\* markQuestionAsked has returned on the second day, the record of the first
\* day being in the ledger.
C34_Witness ==
  \E s \in Slots :
     /\ tasks[s].ph = "done"
     /\ tasks[s].pc = "markQuestionAsked"
     /\ Cardinality(DOMAIN Ledger) = 2
     /\ \E D \in DOMAIN Ledger :
           /\ tasks[s].qid \in Range(Ledger[D].askedQuestionIds)
           /\ \E d \in DOMAIN Ledger : d # D /\ getTodayDate(now) = D


(***************************************************************************)
(* C35.  In every reachable state the ids of the questions of the stored   *)
(* document are pairwise distinct, whatever Generates were run, by one tab *)
(* or by two tabs of the same user.                                        *)
(***************************************************************************)
C35_IdsPairwiseDistinct ==
  \A i, j \in 1..Len(Stored) : i # j => Stored[i].id # Stored[j].id


(***************************************************************************)
(* The lifecycle of a document that Generate fills: the document is absent, *)
(* empty, or holds the one question a Generate at clock 0 stored, and the   *)
(* handlers of the two tabs are all that changes it.                        *)
(***************************************************************************)
GeneratedDoc ==
  [initialDoc EXCEPT
     !.questions = <<[id |-> DateNowId(0), status |-> "asked",
                      question |-> "Hoe gaat het?", answers |-> <<>>,
                      askedAt |-> toISOString(0)]>>,
     !.dailyQuestions =
        markedDaily(<<>>, getTodayDate(0), "askedQuestionIds", DateNowId(0))]

InitLifecycle ==
  /\ now = 1
  /\ store \in {<<>>, <<initialDoc>>, <<GeneratedDoc>>}
  /\ user = [c \in Clients |-> FALSE]
  /\ userDoc = [c \in Clients |-> <<>>]
  /\ generatingQuestion = [c \in Clients |-> FALSE]
  /\ explainingQuestionId = [c \in Clients |-> Null]
  /\ generatingContextId = [c \in Clients |-> Null]
  /\ validatingQuestionId = [c \in Clients |-> Null]
  /\ tasks = [s \in Slots |-> IdleTask]
  /\ calls = 0
  /\ request = <<>>
  /\ response = <<>>

NextLifecycle ==
  \/ Tick
  \/ \E c \in Clients : SignIn(c)
  \/ \E c \in Clients : handleNewQuestion(c)
  \/ \E c \in Clients, i \in QuestionIds, a \in AnswerTexts : handleAnswer(c, i, a)
  \/ \E c \in Clients, i \in QuestionIds : handleGenerateContext(c, i)
  \/ \E c \in Clients, i \in QuestionIds : handleExplain(c, i)
  \/ \E s \in Slots, x \in AiResponses : GenerateQuestionReturns(s, x)
  \/ \E s \in Slots, v \in Verdicts : ValidateAnswerReturns(s, v)
  \/ \E s \in Slots, x \in Conversations : GenerateContextReturns(s, x)
  \/ \E s \in Slots, x \in Explanations : ExplainQuestionReturns(s, x)
  \/ \E s \in Slots : GetDocReturns(s)
  \/ \E s \in Slots : SetDocReturns(s)
  \/ \E s \in Slots : UpdateDocReturns(s)
  \/ \E s \in Slots : Throw(s)

SpecLifecycle == InitLifecycle /\ [][NextLifecycle]_vars

(***************************************************************************)
(* C36.  In a document whose questions were all created by Generate and    *)
(* changed only by the handlers, in every reachable state a question has   *)
(* the status `answered` exactly when its `answers` are not empty, and no  *)
(* question has the status `none`; no read of it finds a legacy entry.     *)
(***************************************************************************)
C36_AnsweredIffHasAnswers ==
  /\ \A i \in 1..Len(Stored) :
        /\ Stored[i].status = "answered" <=> AnswersOf(Stored[i]) # <<>>
        /\ Stored[i].status # "none"
  /\ \A s \in Slots : tasks[s].ph # "migrate"

\* A question that a Generate of this run created has been answered.
C36_Witness ==
  \E i \in 1..Len(Stored) :
     /\ Stored[i].id # DateNowId(0)
     /\ Stored[i].status = "answered"
     /\ AnswersOf(Stored[i]) # <<>>


(***************************************************************************)
(* C37.  At most one question of the stored document is unanswered at any  *)
(* time: New Question is offered only when no question has the status      *)
(* `asked` and no answers, so in every reachable state at most one         *)
(* question has the status `asked` and empty `answers`.                    *)
(***************************************************************************)
\* The pages of the two tabs on a document that Generate fills: a handler
\* runs when its button or form is offered.
NextPages ==
  \/ Tick
  \/ \E c \in Clients : SignIn(c)
  \/ \E c \in Clients : newQuestionButton(c) /\ handleNewQuestion(c)
  \/ \E c \in Clients, i \in QuestionIds, a \in AnswerTexts :
        answerForm(c, i, a) /\ handleAnswer(c, i, a)
  \/ \E c \in Clients, i \in QuestionIds :
        contextButton(c, i) /\ handleGenerateContext(c, i)
  \/ \E c \in Clients, i \in QuestionIds :
        explainButton(c, i) /\ handleExplain(c, i)
  \/ \E s \in Slots, x \in AiResponses : GenerateQuestionReturns(s, x)
  \/ \E s \in Slots, v \in Verdicts : ValidateAnswerReturns(s, v)
  \/ \E s \in Slots, x \in Conversations : GenerateContextReturns(s, x)
  \/ \E s \in Slots, x \in Explanations : ExplainQuestionReturns(s, x)
  \/ \E s \in Slots : GetDocReturns(s)
  \/ \E s \in Slots : SetDocReturns(s)
  \/ \E s \in Slots : UpdateDocReturns(s)
  \/ \E s \in Slots : Throw(s)

SpecPages == InitLifecycle /\ [][NextPages]_vars

Unanswered ==
  {i \in 1..Len(Stored) :
     Stored[i].status = "asked" /\ AnswersOf(Stored[i]) = <<>>}

C37_AtMostOneUnanswered == Cardinality(Unanswered) <= 1


(***************************************************************************)
(* C38.  In every reachable state every id in a date's `askedQuestionIds`  *)
(* or `answeredQuestionIds` is the id of a stored question, and every id   *)
(* in `answeredQuestionIds` is the id of a stored question whose `answers` *)
(* are not empty.                                                          *)
(***************************************************************************)
C38_LedgerIdsAreStoredQuestions ==
  \A d \in DOMAIN Ledger :
     /\ \A id \in Range(Ledger[d].askedQuestionIds) \cup
                  Range(Ledger[d].answeredQuestionIds) :
           StoredQ(id) # <<>>
     /\ \A id \in Range(Ledger[d].answeredQuestionIds) :
           \A i \in 1..Len(Stored) :
              Stored[i].id = id => AnswersOf(Stored[i]) # <<>>


(***************************************************************************)
(* C39.  getUserDocument on a stored document whose questions are all      *)
(* current-shaped is a pure read: when its getDoc resolves the call        *)
(* returns, without a write to the store and with no write-back pending,   *)
(* and the document it returns has the stored questions, dailyQuestions    *)
(* and level.                                                              *)
(***************************************************************************)
C39_CurrentShapedReadIsPure ==
  [][\A s \in Slots :
        /\ store # <<>>
        /\ NoLegacyEntry(store[1])
        /\ tasks[s].pc = "getUserDocument"
        /\ GetDocReturns(s)
        =>
           /\ store' = store
           /\ tasks'[s] = IdleTask
           /\ userDoc'[tasks[s].client] # <<>>
           /\ userDoc'[tasks[s].client][1].questions = store[1].questions
           /\ userDoc'[tasks[s].client][1].dailyQuestions = store[1].dailyQuestions
           /\ userDoc'[tasks[s].client][1].level = store[1].level]_vars

\* The tab has loaded a document that was stored with a current-shaped,
\* answered question: it holds the stored document, and nothing was written.
C39_Witness ==
  /\ store # <<>>
  /\ store[1] \in RawDocs
  /\ NoLegacyEntry(store[1])
  /\ \E i \in 1..Len(store[1].questions) : store[1].questions[i].answers # <<>>
  /\ userDoc["tab1"] = store
  /\ \A s \in Slots : tasks[s] = IdleTask

====
